---------------------------- MODULE Spec2Model ----------------------------
(***************************************************************************)
(* A model of the chat retrieval/reasoning orchestrator of prodcrack        *)
(* (src/app/api/ask/route.ts, the live variant at lines 494-1818) and of    *)
(* the helpers it calls (src/lib/llm/openai.ts).                            *)
(*                                                                         *)
(* Text is modelled as JavaScript models it: a string is a sequence of      *)
(* one-character strings, so that tokenizing, normalizing and substring     *)
(* search are computed as the code computes them.                           *)
(***************************************************************************)
EXTENDS Integers, Sequences, FiniteSets, TLC

(***************************************************************************)
(* Bounds of the model.                                                     *)
(***************************************************************************)
\* pieces concatenated into a sanitizer input text
MaxPieces == 3

\* invocations of upsertSessionMemory that can be in flight at once
MaxTasks == 3

\* seed ids passed to expandGraph
MaxSeeds == 3

\* keywords of the lists passed to retrieveEntitiesByKeywords in every order
MaxKeywords == 3

\* keywords that match nothing, put in front of a matching keyword
MaxFillers == 10

\* the calls of log on one logger
MaxLogs == 3

(***************************************************************************)
(* State.                                                                   *)
(***************************************************************************)
VARIABLES
  sanPhase,     \* sanitizer run: "input" before the call, "done" after it
  sanAnswer,    \* sanitizeProductAnswer's argument answer
  sanFallback,  \* sanitizeProductAnswer's argument fallback
  sanResult,    \* sanitizeProductAnswer's return value
  fnCall,       \* a call of a data-access or narrative function: its name and arguments
  fnResult,     \* the call's result: pending until the call returns
  env,          \* what a turn is given: request body, bearer token, OPENAI_API_KEY
  pc,           \* the await at which POST is suspended
  loc,          \* POST's local variables
  timer,        \* milliseconds of the armed withTimeout timer, 0 when none is armed
  calls,        \* the stage events of the turn, in order
  resp,         \* the response POST returned
  memory,       \* table chat_session_memory: weight by key, 0 when there is no row
  embeddings,   \* table embeddings: vector by entity id, <<>> when there is no row
  tasks,        \* the invocations of upsertSessionMemory
  backfill      \* the invocation of runMetalBatWorker

sanVars == <<sanPhase, sanAnswer, sanFallback, sanResult>>

fnVars == <<fnCall, fnResult>>

turnVars == <<env, pc, loc, timer, calls, resp>>

storeVars == <<memory, embeddings, tasks, backfill>>

vars == <<sanPhase, sanAnswer, sanFallback, sanResult, fnCall, fnResult, env, pc, loc, timer, calls, resp, memory, embeddings, tasks, backfill>>

\* no turn is running
TurnIdle == /\ env = <<>>
            /\ pc = "idle"
            /\ loc = <<>>
            /\ timer = 0
            /\ calls = <<>>
            /\ resp = <<>>

\* no function call is made
FnIdle == /\ fnCall = <<>>
          /\ fnResult = <<>>

\* no background work and empty tables
StoreIdle == /\ memory = <<>>
             /\ embeddings = <<>>
             /\ tasks = <<>>
             /\ backfill = <<>>

(***************************************************************************)
(* Characters.                                                              *)
(***************************************************************************)
Digits == {"0","1","2","3","4","5","6","7","8","9"}

UpperSeq == <<"A","B","C","D","E","F","G","H","I","J","K","L","M","N","O","P","Q","R","S","T","U","V","W","X","Y","Z">>

LowerSeq == <<"a","b","c","d","e","f","g","h","i","j","k","l","m","n","o","p","q","r","s","t","u","v","w","x","y","z">>

Upper == {UpperSeq[i] : i \in 1..26}

Lower == {LowerSeq[i] : i \in 1..26}

\* route.ts 632-638
isAlphaNum(ch) == ch \in Digits \/ ch \in Upper \/ ch \in Lower

\* String.prototype.toLowerCase on one character (ASCII)
toLowerChar(ch) == IF ch \in Upper THEN LowerSeq[CHOOSE i \in 1..26 : UpperSeq[i] = ch] ELSE ch

\* String.prototype.toLowerCase
toLowerCase(s) == [i \in 1..Len(s) |-> toLowerChar(s[i])]

\* the characters String.prototype.trim removes (those the model's texts use)
WhiteSpace == {" ", "\t", "\n"}

RECURSIVE trimStart(_)
trimStart(s) == IF s # <<>> /\ Head(s) \in WhiteSpace THEN trimStart(Tail(s)) ELSE s

RECURSIVE trimEnd(_)
trimEnd(s) == IF s # <<>> /\ s[Len(s)] \in WhiteSpace THEN trimEnd(SubSeq(s, 1, Len(s) - 1)) ELSE s

\* String.prototype.trim
trim(s) == trimEnd(trimStart(s))

\* String.prototype.slice(0, n) and Array.prototype.slice(0, n)
slice(s, n) == SubSeq(s, 1, IF Len(s) < n THEN Len(s) ELSE n)

\* String.prototype.includes
includes(hay, needle) ==
  \/ needle = <<>>
  \/ \E i \in 1..(Len(hay) - Len(needle) + 1) : hay[i] = needle[1] /\ SubSeq(hay, i, i + Len(needle) - 1) = needle

RECURSIVE join(_, _)
\* Array.prototype.join
join(parts, sep) == IF parts = <<>> THEN <<>> ELSE IF Len(parts) = 1 THEN parts[1] ELSE parts[1] \o sep \o join(Tail(parts), sep)

\* the indexes 1..n that lie in I, in increasing order
indexesIn(n, I) == SelectSeq([i \in 1..n |-> i], LAMBDA i : i \in I)

\* the elements of s at the indexes in I, in increasing index order
pick(s, I) == [k \in 1..Len(indexesIn(Len(s), I)) |-> s[indexesIn(Len(s), I)[k]]]

\* String.prototype.split on a one-character separator: the k-th part lies
\* between the (k-1)-th and the k-th occurrence of the separator
split(s, sep) ==
  LET at == indexesIn(Len(s), {i \in 1..Len(s) : s[i] = sep})
      cut(k) == IF k = 0 THEN 0 ELSE IF k > Len(at) THEN Len(s) + 1 ELSE at[k]
  IN [k \in 1..(Len(at) + 1) |-> SubSeq(s, cut(k - 1) + 1, cut(k) - 1)]

\* Array.from(new Set(xs)): the distinct elements in first-seen order
dedupe(s) == pick(s, {i \in 1..Len(s) : \A j \in 1..(i - 1) : s[j] # s[i]})

Range(s) == {s[i] : i \in 1..Len(s)}

(***************************************************************************)
(* Keyword and text helpers of route.ts.                                    *)
(***************************************************************************)
\* route.ts 640-654: the tokens are the maximal runs of letters, digits and
\* '_', lower-cased, those shorter than minLength dropped
tokenizeWords(value, minLength) ==
  LET isWord(i) == isAlphaNum(value[i]) \/ value[i] = "_"
      starts == indexesIn(Len(value), {i \in 1..Len(value) : isWord(i) /\ (i = 1 \/ ~isWord(i - 1))})
      ends == indexesIn(Len(value), {i \in 1..Len(value) : isWord(i) /\ (i = Len(value) \/ ~isWord(i + 1))})
      runs == [k \in 1..Len(starts) |-> toLowerCase(SubSeq(value, starts[k], ends[k]))]
  IN SelectSeq(runs, LAMBDA token : Len(token) >= minLength)

\* route.ts 656-659
normalizeText(value) == trim(join(tokenizeWords(value, 1), <<" ">>))

\* route.ts 661-669
containsAnyPhrase(value, phrases) ==
  LET normalized == <<" ">> \o normalizeText(value) \o <<" ">>
  IN \E k \in 1..Len(phrases) :
       LET p == normalizeText(phrases[k])
       IN p # <<>> /\ includes(normalized, <<" ">> \o p \o <<" ">>)

\* route.ts 918-921: the technical vocabulary of the sanitizer
TechnicalTerms == <<
  <<"i","m","p","o","r","t">>, <<"m","o","d","u","l","e">>, <<"f","i","l","e">>, <<"p","a","t","h">>,
  <<"c","o","n","t","r","o","l","l","e","r">>, <<"e","n","t","i","t","y">>, <<"g","r","a","p","h">>,
  <<"r","e","l","a","t","i","o","n","s","h","i","p">>, <<"f","u","n","c","t","i","o","n">>,
  <<"c","l","a","s","s">>, <<"d","e","p","e","n","d","e","n","c","y">>, <<"s","n","i","p","p","e","t">>,
  <<"t","s","x">>, <<"j","s","x">>, <<"p","y">>, <<"j","a","v","a">> >>

\* a variant of sanitizeProductAnswer that lets the technical vocabulary through
sanitizeProductAnswerNoVocabulary(answer, fallback) ==
  LET compact == normalizeText(answer)
  IN IF compact = <<>> THEN fallback ELSE compact

\* route.ts 907-924
sanitizeProductAnswer(answer, fallback) ==
  LET compact == normalizeText(answer)
      tokens == SelectSeq(split(compact, " "), LAMBDA tok : tok # <<>>)
      hasPathLike == \E k \in 1..Len(tokens) : includes(tokens[k], <<"/">>) /\ Len(tokens[k]) > 3
      looksTechnical == hasPathLike \/ containsAnyPhrase(compact, TechnicalTerms)
  IN IF compact = <<>> THEN fallback
     ELSE IF looksTechnical THEN fallback
     ELSE compact

(***************************************************************************)
(* The sanitizer on its own: sanitizeProductAnswer applied to bounded texts. *)
(***************************************************************************)
\* the pieces sanitizer inputs are built from: every technical term, plain
\* words, an upper-case spelling, and separators
SanPieces == Range(TechnicalTerms) \cup {
  <<"w","e">>, <<"F","i","l","e">>, <<"f","i","l","e","s">>,
  <<" ">>, <<"/">>, <<".">>, <<"_">> }

RECURSIVE concat(_)
concat(parts) == IF parts = <<>> THEN <<>> ELSE Head(parts) \o concat(Tail(parts))

SanTexts == {concat(ps) : ps \in UNION {[1..n -> SanPieces] : n \in 0..MaxPieces}}

SanFallbacks == { <<"o","k">>, <<"w","e">> }

SanIdle == /\ sanPhase = "idle"
           /\ sanAnswer = <<>>
           /\ sanFallback = <<>>
           /\ sanResult = <<>>

SanInit == /\ sanPhase = "input"
           /\ sanAnswer \in SanTexts
           /\ sanFallback \in SanFallbacks
           /\ sanResult = <<>>
           /\ FnIdle
           /\ TurnIdle
           /\ StoreIdle

\* one call of sanitizeProductAnswer (route.ts 907-924)
Sanitize == /\ sanPhase = "input"
            /\ sanResult' = sanitizeProductAnswer(sanAnswer, sanFallback)
            /\ sanPhase' = "done"
            /\ UNCHANGED <<sanAnswer, sanFallback, fnVars, turnVars, storeVars>>

SanNext == Sanitize

SanSpec == SanInit /\ [][SanNext]_vars

(***************************************************************************)
(* Vocabulary of the claims about the sanitizer, stated on the raw text.    *)
(***************************************************************************)
IsWordChar(ch) == isAlphaNum(ch) \/ ch = "_"

\* term occurs in text as a word: a case-insensitive match that no word
\* character precedes or follows
OccursAsWord(text, term) ==
  \E i \in 1..(Len(text) - Len(term) + 1) :
    /\ toLowerCase(SubSeq(text, i, i + Len(term) - 1)) = term
    /\ (i = 1 \/ ~IsWordChar(text[i - 1]))
    /\ (i + Len(term) - 1 = Len(text) \/ ~IsWordChar(text[i + Len(term)]))

\* the whitespace-delimited tokens of a text: its maximal runs of
\* non-whitespace characters
WhitespaceTokens(text) ==
  LET isInk(i) == text[i] \notin WhiteSpace
      starts == indexesIn(Len(text), {i \in 1..Len(text) : isInk(i) /\ (i = 1 \/ ~isInk(i - 1))})
      ends == indexesIn(Len(text), {i \in 1..Len(text) : isInk(i) /\ (i = Len(text) \/ ~isInk(i + 1))})
  IN [k \in 1..Len(starts) |-> SubSeq(text, starts[k], ends[k])]

\* a whitespace-delimited token longer than 3 characters that contains '/'
HasPathLikeToken(text) ==
  \E k \in 1..Len(WhitespaceTokens(text)) :
    /\ Len(WhitespaceTokens(text)[k]) > 3
    /\ includes(WhitespaceTokens(text)[k], <<"/">>)

HasTechnicalTerm(text) == \E k \in 1..Len(TechnicalTerms) : OccursAsWord(text, TechnicalTerms[k])

\* C8: sanitizeProductAnswer(text, fallback) returns fallback for every text
\* that contains a path-like token (a whitespace-delimited token longer than
\* 3 characters that contains '/'), also when the text contains no
\* blocklisted technical term.
C8_PathLikeRejected ==
  (sanPhase = "done" /\ HasPathLikeToken(sanAnswer)) => sanResult = sanFallback

\* C9: sanitizeProductAnswer(text, fallback) returns fallback for every text
\* in which any one of the blocklisted technical terms occurs as a word,
\* for each term of the blocklist on its own.
C9_TechnicalTermRejected ==
  \A k \in 1..Len(TechnicalTerms) :
    (sanPhase = "done" /\ OccursAsWord(sanAnswer, TechnicalTerms[k])) => sanResult = sanFallback

\* a text whose only technical term is "java", in upper-case spelling or not,
\* has been sanitized to the fallback
C9_Witness ==
  /\ sanPhase = "done"
  /\ sanAnswer = <<"w","e"," ","j","a","v","a">>
  /\ sanFallback = <<"o","k">>
  /\ sanResult = <<"o","k">>

(***************************************************************************)
(* Keywords, domains and entity scoring (route.ts 671-776).                 *)
(***************************************************************************)
\* program constants: the caps the code applies
NormalizeKeywordsCap == 20

QuestionKeywordsCap == 12

AnchorTermsCap == 20

RetrievalKeywordsCap == 28

LikeMaxLen == 40

DominantDomainsCap == 10

\* route.ts 684-687
GENERIC_QUERY_WORDS == Range(<<<<"e","x","p","l","a","i","n">>, <<"f","l","o","w">>, <<"f","l","o","w","s">>, <<"s","y","s","t","e","m">>, <<"h","o","w">>, <<"w","h","a","t">>, <<"w","o","r","k","s">>, <<"w","o","r","k">>, <<"i","t">>, <<"a","p","p">>, <<"a","p","p","l","i","c","a","t","i","o","n">>, <<"o","v","e","r","v","i","e","w">>, <<"d","e","t","a","i","l","s">>, <<"a","b","o","u","t">>, <<"f","e","a","t","u","r","e">>, <<"f","e","a","t","u","r","e","s">>, <<"l","o","g","i","c">>, <<"p","r","o","c","e","s","s">>>>)

\* route.ts 689-696
DOMAIN_STOPWORDS == Range(<<<<"s","r","c">>, <<"a","p","p">>, <<"a","p","p","s">>, <<"l","i","b">>, <<"l","i","b","s">>, <<"a","p","i">>, <<"u","t","i","l","s">>, <<"h","e","l","p","e","r">>, <<"h","e","l","p","e","r","s">>, <<"c","o","m","m","o","n">>, <<"s","h","a","r","e","d">>, <<"i","n","d","e","x">>, <<"m","a","i","n">>, <<"s","e","r","v","i","c","e">>, <<"s","e","r","v","i","c","e","s">>, <<"c","o","n","t","r","o","l","l","e","r">>, <<"c","o","n","t","r","o","l","l","e","r","s">>, <<"c","o","m","p","o","n","e","n","t">>, <<"c","o","m","p","o","n","e","n","t","s">>, <<"m","o","d","u","l","e">>, <<"m","o","d","u","l","e","s">>, <<"h","o","o","k">>, <<"h","o","o","k","s">>, <<"m","o","d","e","l">>, <<"m","o","d","e","l","s">>, <<"t","y","p","e","s">>, <<"t","y","p","e">>, <<"r","o","u","t","e">>, <<"r","o","u","t","e","s">>, <<"v","i","e","w">>, <<"v","i","e","w","s">>, <<"p","a","g","e">>, <<"p","a","g","e","s">>, <<"c","l","i","e","n","t">>, <<"s","e","r","v","e","r">>, <<"p","u","b","l","i","c">>, <<"p","r","i","v","a","t","e">>, <<"c","o","r","e">>, <<"f","e","a","t","u","r","e">>, <<"f","e","a","t","u","r","e","s">>, <<"i","m","p","l">>, <<"i","m","p","l","e","m","e","n","t","a","t","i","o","n">>, <<"t","e","s","t">>, <<"t","e","s","t","s">>, <<"s","p","e","c">>, <<"c","o","n","f","i","g">>, <<"c","o","n","f","i","g","s">>, <<"j","s">>, <<"j","s","x">>, <<"t","s">>, <<"t","s","x">>, <<"j","s","o","n">>>>)

\* route.ts 680-682
extractKeywordsFromQuestion(question) == slice(dedupe(tokenizeWords(question, 3)), QuestionKeywordsCap)

\* route.ts 698-704
extractDomainTokensFromEntity(entity) ==
  LET raw == toLowerCase(entity.entity_name \o <<" ">> \o entity.file_path)
  IN SelectSeq(tokenizeWords(raw, 1),
               LAMBDA token : Len(token) >= 3 /\ token \notin DOMAIN_STOPWORDS /\ token \notin GENERIC_QUERY_WORDS)

\* Array.prototype.flatMap over tokenizeWords(a.toLowerCase(), 1)
RECURSIVE flatTokens(_)
flatTokens(anchors) == IF anchors = <<>> THEN <<>> ELSE tokenizeWords(toLowerCase(Head(anchors)), 1) \o flatTokens(Tail(anchors))

\* route.ts 706-716
extractAnchorTerms(anchors) ==
  slice(dedupe(SelectSeq(flatTokens(anchors),
                         LAMBDA token : /\ Len(token) >= 3
                                        /\ token \notin GENERIC_QUERY_WORDS
                                        /\ token # <<"f","l","o","w">> /\ token # <<"l","i","f","e","c","y","c","l","e">>)),
        AnchorTermsCap)

\* [...value] of a string: its characters, each a string of length one
spreadString(value) == [i \in 1..Len(value) |-> <<value[i]>>]

\* route.ts 718-730
buildRetrievalKeywords(base, expanded, anchorTerms, dominantDomains) ==
  LET all == base \o expanded \o anchorTerms \o dominantDomains
      raw == SelectSeq([i \in 1..Len(all) |-> trim(toLowerCase(all[i]))], LAMBDA k : k # <<>>)
  IN slice(SelectSeq(dedupe(raw), LAMBDA k : k \notin GENERIC_QUERY_WORDS), RetrievalKeywordsCap)

\* route.ts 732-747
scoreEntityAgainstKeywords(entity, keywords) ==
  LET metaKeywords == join(entity.metadata.keywords, <<" ">>)
      metaTags == join(entity.metadata.tags, <<" ">>)
      haystack == toLowerCase(entity.entity_name \o <<" ">> \o entity.entity_type \o <<" ">> \o entity.file_path
                              \o <<" ">> \o metaKeywords \o <<" ">> \o metaTags)
      hit(k) == LET kk == trim(toLowerCase(k)) IN kk # <<>> /\ includes(haystack, kk)
  IN Cardinality({i \in 1..Len(keywords) : hit(keywords[i])})

\* route.ts 749-757
sanitizeForLike(value) ==
  slice(trim(SelectSeq(value, LAMBDA ch : ch \notin {"%", "_", "'", "\"", ","})), LikeMaxLen)

\* route.ts 759-761
compactText(value, max) == slice(normalizeText(value), max)

\* route.ts 771-776
getEntitySnippet(entity) == compactText(entity.metadata.snippet, 200)

(***************************************************************************)
(* Stable sorting, as Array.prototype.sort((a, b) => b.score - a.score).    *)
(***************************************************************************)
RECURSIVE insertByScore(_, _)
insertByScore(sorted, x) ==
  IF sorted = <<>> THEN <<x>>
  ELSE IF Head(sorted).score >= x.score THEN <<Head(sorted)>> \o insertByScore(Tail(sorted), x)
  ELSE <<x>> \o sorted

RECURSIVE sortByScoreDesc(_)
sortByScoreDesc(xs) == IF xs = <<>> THEN <<>> ELSE insertByScore(sortByScoreDesc(SubSeq(xs, 1, Len(xs) - 1)), xs[Len(xs)])

(***************************************************************************)
(* The structure index: entity rows and graph edges, written by ingestion   *)
(* and read-only for the chat core.  Two indexed repositories.              *)
(***************************************************************************)
NoMetadata == [keywords |-> <<>>, tags |-> <<>>, snippet |-> <<>>]

EntityLogin == [id |-> "E1", entity_name |-> <<"l","o","g","i","n">>, entity_type |-> <<"m","o","d","u","l","e">>, file_path |-> <<"a","u","t","h","/","l","o","g","i","n",".","t","s">>,
                metadata |-> [keywords |-> <<>>, tags |-> <<<<"l","o","g","i","n">>, <<"o","a","u","t","h">>, <<"g","o","o","g","l","e">>>>, snippet |-> <<>>]]

EntitySession == [id |-> "E2", entity_name |-> <<"s","e","s","s","i","o","n">>, entity_type |-> <<"m","o","d","u","l","e">>, file_path |-> <<"a","u","t","h","/","s","e","s","s","i","o","n",".","t","s">>,
                  metadata |-> NoMetadata]

EntityStripe == [id |-> "E3", entity_name |-> <<"s","t","r","i","p","e">>, entity_type |-> <<"d","e","p","e","n","d","e","n","c","y">>, file_path |-> <<"p","a","c","k","a","g","e",".","j","s","o","n">>,
                 metadata |-> NoMetadata]

\* an entity whose name holds '_', the character sanitizeForLike drops
EntityUserAuth == [id |-> "E9", entity_name |-> <<"u","s","e","r","_","a","u","t","h">>, entity_type |-> <<"m","o","d","u","l","e">>, file_path |-> <<"l","i","b","/","u","s","e","r","_","a","u","t","h",".","t","s">>,
                   metadata |-> NoMetadata]

\* table repository_entities, by repository
\* the entities of a repository that has one entity more than a seed list
\* holds: W1 .. W81
WideEntities == [i \in 1..81 |-> [EntitySession EXCEPT !.id = "W" \o ToString(i)]]

EntityTable(repositoryId) ==
  CASE repositoryId = <<"r","e","p","o","-","1">> -> <<EntityLogin, EntitySession, EntityStripe>>
    [] repositoryId = <<"r","e","p","o","-","2">> -> <<EntityUserAuth>>
    [] repositoryId = <<"w","i","d","e">> -> WideEntities
    [] OTHER -> <<>>

\* table code_graph, by repository
GraphTable(repositoryId) ==
  CASE repositoryId = <<"r","e","p","o","-","1">> ->
         << [source_entity_id |-> "E1", target_entity_id |-> "E2", relationship_type |-> "uses-module"],
            [source_entity_id |-> "E3", target_entity_id |-> "E1", relationship_type |-> "imports"] >>
    [] repositoryId = <<"w","i","d","e">> ->
         << [source_entity_id |-> "W1", target_entity_id |-> "W81", relationship_type |-> "imports"] >>
    [] OTHER -> <<>>

EntityIds == {"E1", "E2", "E3", "E9"}

(***************************************************************************)
(* Data access of route.ts.  A query without ORDER BY is modelled as         *)
(* returning the matching rows in table order.                              *)
(***************************************************************************)
KeywordFanOut == 10

KeywordRowLimit == 40

DomainScanLimit == 500

IdFetchCap == 80

EdgeRowLimit == 300

SessionMemoryReadLimit == 30

RerankIdCap == 120

\* entity_name.ilike.%like% or file_path.ilike.%like%
ilikeRow(row, like) ==
  \/ includes(toLowerCase(row.entity_name), toLowerCase(like))
  \/ includes(toLowerCase(row.file_path), toLowerCase(like))

\* Map.set(key, value) on a sequence of rows keyed by id, in insertion order
mapSet(rows, row) ==
  IF \E i \in 1..Len(rows) : rows[i].id = row.id
  THEN [i \in 1..Len(rows) |-> IF rows[i].id = row.id THEN row ELSE rows[i]]
  ELSE Append(rows, row)

RECURSIVE mapSetAll(_, _)
mapSetAll(rows, more) == IF more = <<>> THEN rows ELSE mapSetAll(mapSet(rows, Head(more)), Tail(more))

\* frequency.set(token, (frequency.get(token) || 0) + 1) for each token
RECURSIVE countTokens(_, _)
countTokens(freq, tokens) ==
  IF tokens = <<>> THEN freq
  ELSE countTokens(IF \E i \in 1..Len(freq) : freq[i].token = Head(tokens)
                   THEN [i \in 1..Len(freq) |-> IF freq[i].token = Head(tokens)
                                                THEN [token |-> freq[i].token, score |-> freq[i].score + 1]
                                                ELSE freq[i]]
                   ELSE Append(freq, [token |-> Head(tokens), score |-> 1]),
                   Tail(tokens))

RECURSIVE countRows(_, _)
countRows(freq, rows) ==
  IF rows = <<>> THEN freq
  ELSE countRows(countTokens(freq, extractDomainTokensFromEntity(Head(rows))), Tail(rows))

\* route.ts 1042-1069
detectDominantRepoDomains(repositoryId) ==
  LET data == slice(EntityTable(repositoryId), DomainScanLimit)
      sorted == sortByScoreDesc(countRows(<<>>, data))
  IN slice([i \in 1..Len(sorted) |-> sorted[i].token], DominantDomainsCap)

RECURSIVE retrieveLoop(_, _, _)
retrieveLoop(rows, keywords, map) ==
  IF keywords = <<>> THEN map
  ELSE LET like == sanitizeForLike(Head(keywords))
           data == slice(SelectSeq(rows, LAMBDA row : ilikeRow(row, like)), KeywordRowLimit)
       IN retrieveLoop(rows, Tail(keywords), IF like = <<>> THEN map ELSE mapSetAll(map, data))

\* a variant of retrieveEntitiesByKeywords that queries the first keyword only
retrieveEntitiesByFirstKeyword(repositoryId, keywords) ==
  retrieveLoop(EntityTable(repositoryId), slice(keywords, 1), <<>>)

\* route.ts 1106-1125
retrieveEntitiesByKeywords(repositoryId, keywords) ==
  retrieveLoop(EntityTable(repositoryId), slice(keywords, KeywordFanOut), <<>>)

\* route.ts 1127-1132
scoreForSeedRanking(entity, retrievalKeywords, dominantDomains, inSession) ==
  scoreEntityAgainstKeywords(entity, retrievalKeywords) * 2
    + scoreEntityAgainstKeywords(entity, dominantDomains)
    + (IF inSession THEN 1 ELSE 0)

\* route.ts 1134-1143
retrieveEntitiesByIds(repositoryId, ids) ==
  IF ids = <<>> THEN <<>>
  ELSE SelectSeq(EntityTable(repositoryId), LAMBDA row : row.id \in Range(slice(ids, IdFetchCap)))

\* new Set(seedIds), then add both endpoints of every edge, in insertion order
RECURSIVE addEndpoints(_, _)
addEndpoints(ids, edges) ==
  IF edges = <<>> THEN ids
  ELSE addEndpoints(dedupe(ids \o <<Head(edges).source_entity_id, Head(edges).target_entity_id>>), Tail(edges))

\* a variant of expandGraph that also follows the edges of the neighbours
expandGraphTwoHops(repositoryId, seedIds) ==
  LET touching(ids) == SelectSeq(GraphTable(repositoryId),
                                 LAMBDA e : e.source_entity_id \in Range(ids) \/ e.target_entity_id \in Range(ids))
      near == addEndpoints(dedupe(seedIds), touching(seedIds))
      far == addEndpoints(near, touching(near))
  IN IF seedIds = <<>> THEN [entities |-> <<>>, relationships |-> <<>>]
     ELSE [entities |-> retrieveEntitiesByIds(repositoryId, far), relationships |-> touching(seedIds)]

\* route.ts 1145-1170
expandGraph(repositoryId, seedIds) ==
  LET outA == slice(SelectSeq(GraphTable(repositoryId), LAMBDA e : e.source_entity_id \in Range(seedIds)), EdgeRowLimit)
      outB == slice(SelectSeq(GraphTable(repositoryId), LAMBDA e : e.target_entity_id \in Range(seedIds)), EdgeRowLimit)
      relationships == outA \o outB
      ids == addEndpoints(dedupe(seedIds), relationships)
  IN IF seedIds = <<>> THEN [entities |-> <<>>, relationships |-> <<>>]
     ELSE [entities |-> retrieveEntitiesByIds(repositoryId, ids), relationships |-> relationships]

(***************************************************************************)
(* Embedding rerank (route.ts 948-960, 1172-1202).  Vectors are integer      *)
(* tuples whose norms are integers, so every cosine is a rational number     *)
(* [num, den] and scores are compared exactly.                              *)
(***************************************************************************)
RECURSIVE dotUpTo(_, _, _)
dotUpTo(a, b, n) == IF n = 0 THEN 0 ELSE a[n] * b[n] + dotUpTo(a, b, n - 1)

minLen(a, b) == IF Len(a) < Len(b) THEN Len(a) ELSE Len(b)

\* Math.sqrt on the squared norms the model's vectors have
intSqrt(n) == CHOOSE r \in 0..n : r * r = n

\* route.ts 948-960
cosineSimilarity(a, b) ==
  LET len == minLen(a, b)
      dot == dotUpTo(a, b, len)
      an == dotUpTo(a, a, len)
      bn == dotUpTo(b, b, len)
  IN IF an = 0 \/ bn = 0 THEN [num |-> 0, den |-> 1]
     ELSE [num |-> dot, den |-> intSqrt(an) * intSqrt(bn)]

\* semantic + lexicalPrior * 0.15 with lexicalPrior = 1 / (1 + index), index from 0
rerankScore(semantic, index) ==
  [num |-> semantic.num * 100 * (1 + index) + 15 * semantic.den, den |-> semantic.den * 100 * (1 + index)]

ratGE(a, b) == a.num * b.den >= b.num * a.den

RECURSIVE insertByRat(_, _)
insertByRat(sorted, x) ==
  IF sorted = <<>> THEN <<x>>
  ELSE IF ratGE(Head(sorted).score, x.score) THEN <<Head(sorted)>> \o insertByRat(Tail(sorted), x)
  ELSE <<x>> \o sorted

RECURSIVE sortByRatDesc(_)
sortByRatDesc(xs) == IF xs = <<>> THEN <<>> ELSE insertByRat(sortByRatDesc(SubSeq(xs, 1, Len(xs) - 1)), xs[Len(xs)])

\* a variant of rerankByVectors that returns only the entities that have a
\* stored vector
rerankByVectorsOnlyEmbedded(queryVector, stored, entities) ==
  LET wanted == Range(slice([i \in 1..Len(entities) |-> entities[i].id], RerankIdCap))
      vec(id) == IF id \in wanted /\ id \in DOMAIN stored THEN stored[id] ELSE <<>>
      scored == [i \in 1..Len(entities) |->
                   [entity |-> entities[i],
                    score |-> rerankScore(IF vec(entities[i].id) # <<>>
                                          THEN cosineSimilarity(queryVector, vec(entities[i].id))
                                          ELSE [num |-> 0, den |-> 1], i - 1)]]
      sorted == sortByRatDesc(SelectSeq(scored, LAMBDA x : vec(x.entity.id) # <<>>))
  IN [i \in 1..Len(sorted) |-> sorted[i].entity]

\* route.ts 1176-1201: the rerank once a query vector is at hand; stored maps
\* an entity id to its stored vector, <<>> when the entity has none
rerankByVectors(queryVector, stored, entities) ==
  LET wanted == Range(slice([i \in 1..Len(entities) |-> entities[i].id], RerankIdCap))
      vec(id) == IF id \in wanted /\ id \in DOMAIN stored THEN stored[id] ELSE <<>>
      scored == [i \in 1..Len(entities) |->
                   [entity |-> entities[i],
                    score |-> rerankScore(IF vec(entities[i].id) # <<>>
                                          THEN cosineSimilarity(queryVector, vec(entities[i].id))
                                          ELSE [num |-> 0, den |-> 1], i - 1)]]
      sorted == sortByRatDesc(scored)
  IN [i \in 1..Len(sorted) |-> sorted[i].entity]

(***************************************************************************)
(* The deterministic fallback answer builder (route.ts 778-905).            *)
(***************************************************************************)
FallbackAnchorCap == 18

FallbackEdgeCap == 180

FallbackRelatedCap == 40

HighConfidenceEdges == 20

\* route.ts 780-786, on the lower-cased name and type of the entity
stageOfText(text, entityType) ==
  IF containsAnyPhrase(text, <<<<"r","o","u","t","e">>, <<"a","p","i">>, <<"c","o","n","t","r","o","l","l","e","r">>, <<"h","a","n","d","l","e","r">>, <<"e","n","t","r","y">>, <<"s","u","b","m","i","t">>, <<"s","t","a","r","t">>, <<"c","r","e","a","t","e">>, <<"s","e","l","e","c","t">>, <<"c","h","o","o","s","e">>, <<"b","o","o","k">>, <<"c","h","e","c","k","o","u","t">>, <<"l","o","g","i","n">>, <<"s","i","g","n">>>>) THEN "initiation"
  ELSE IF containsAnyPhrase(text, <<<<"v","a","l","i","d","a","t","e">>, <<"v","e","r","i","f","y">>, <<"a","u","t","h">>, <<"p","e","r","m","i","s","s","i","o","n">>, <<"g","u","a","r","d">>, <<"c","h","e","c","k">>, <<"p","o","l","i","c","y">>, <<"r","u","l","e">>>>) THEN "validation"
  ELSE IF containsAnyPhrase(text, <<<<"s","e","r","v","i","c","e">>, <<"p","r","o","c","e","s","s">>, <<"a","p","p","l","y">>, <<"c","a","l","c","u","l","a","t","e">>, <<"e","x","e","c","u","t","e">>, <<"r","e","s","e","r","v","e">>, <<"p","a","y","m","e","n","t">>, <<"c","h","a","r","g","e">>, <<"u","p","d","a","t","e">>, <<"c","o","m","p","u","t","e">>>>) THEN "processing"
  ELSE IF containsAnyPhrase(text, <<<<"m","o","d","e","l">>, <<"s","t","o","r","e">>, <<"s","a","v","e">>, <<"p","e","r","s","i","s","t">>, <<"s","t","a","t","e">>, <<"s","e","s","s","i","o","n">>, <<"t","o","k","e","n">>, <<"r","e","c","o","r","d">>, <<"c","a","c","h","e">>>>) THEN "state_update"
  ELSE IF containsAnyPhrase(text, <<<<"r","e","s","p","o","n","s","e">>, <<"r","e","s","u","l","t">>, <<"s","u","c","c","e","s","s">>, <<"f","a","i","l","e","d">>, <<"n","o","t","i","f","y">>, <<"r","e","d","i","r","e","c","t">>, <<"c","o","m","p","l","e","t","e">>, <<"s","t","a","t","u","s">>>>) THEN "outcome"
  ELSE IF entityType = <<"d","e","p","e","n","d","e","n","c","y">> THEN "integration"
  ELSE "processing"

\* route.ts 778-787
inferStageFromEntity(entity) ==
  stageOfText(toLowerCase(entity.entity_name \o <<" ">> \o entity.entity_type), entity.entity_type)

\* route.ts 790-793: the entities' name, type and path, joined by spaces
RECURSIVE authCorpusFrom(_)
authCorpusFrom(entities) ==
  IF entities = <<>> THEN <<>>
  ELSE IF Len(entities) = 1
       THEN entities[1].entity_name \o <<" ">> \o entities[1].entity_type \o <<" ">> \o entities[1].file_path
       ELSE entities[1].entity_name \o <<" ">> \o entities[1].entity_type \o <<" ">> \o entities[1].file_path
            \o <<" ">> \o authCorpusFrom(Tail(entities))

\* route.ts 794-804
authCapabilitiesOf(corpus) ==
  [credentialSignIn |-> containsAnyPhrase(corpus, <<<<"s","i","g","n","i","n">>, <<"s","i","g","n"," ","i","n">>, <<"l","o","g","i","n">>, <<"p","a","s","s","w","o","r","d">>, <<"c","r","e","d","e","n","t","i","a","l">>, <<"e","m","a","i","l">>>>),
   socialGoogle |-> containsAnyPhrase(corpus, <<<<"g","o","o","g","l","e">>, <<"o","a","u","t","h">>>>),
   socialGithub |-> containsAnyPhrase(corpus, <<<<"g","i","t","h","u","b">>>>),
   signUp |-> containsAnyPhrase(corpus, <<<<"s","i","g","n","u","p">>, <<"s","i","g","n"," ","u","p">>, <<"r","e","g","i","s","t","e","r">>>>),
   signOut |-> containsAnyPhrase(corpus, <<<<"s","i","g","n","o","u","t">>, <<"s","i","g","n"," ","o","u","t">>, <<"l","o","g","o","u","t">>>>),
   session |-> containsAnyPhrase(corpus, <<<<"s","e","s","s","i","o","n">>, <<"t","o","k","e","n">>, <<"j","w","t">>, <<"c","o","o","k","i","e">>>>),
   validation |-> containsAnyPhrase(corpus, <<<<"v","a","l","i","d","a","t","e">>, <<"v","e","r","i","f","y">>, <<"b","c","r","y","p","t">>, <<"a","u","t","h">>, <<"p","e","r","m","i","s","s","i","o","n">>, <<"g","u","a","r","d">>>>),
   redirect |-> containsAnyPhrase(corpus, <<<<"r","e","d","i","r","e","c","t">>, <<"n","a","v","i","g","a","t","e">>, <<"r","o","u","t","e">>>>)]

\* route.ts 789-805
inferAuthCapabilities(entities) == authCapabilitiesOf(toLowerCase(authCorpusFrom(entities)))

\* route.ts 809
MsgNoIndexedStructure == <<"I"," ","c","o","u","l","d"," ","n","o","t"," ","f","i","n","d"," ","e","n","o","u","g","h"," ","i","n","d","e","x","e","d"," ","s","t","r","u","c","t","u","r","e"," ","f","o","r"," ","t","h","i","s"," ","q","u","e","s","t","i","o","n"," ","y","e","t","."," ","R","e","-","r","u","n"," ","i","n","g","e","s","t","i","o","n"," ","t","o"," ","r","e","f","r","e","s","h"," ","t","h","e"," ","s","t","r","u","c","t","u","r","e"," ","i","n","d","e","x",".">>

\* route.ts 818
MsgLowEvidence(question) == <<"I"," ","c","a","n","n","o","t"," ","c","o","n","f","i","d","e","n","t","l","y"," ","c","o","n","f","i","r","m"," ","t","h","i","s"," ","s","p","e","c","i","f","i","c"," ","f","l","o","w"," ","f","r","o","m"," ","t","h","e"," ","c","u","r","r","e","n","t","l","y"," ","i","n","d","e","x","e","d"," ","s","t","r","u","c","t","u","r","e"," ","f","o","r"," ","\"">> \o compactText(question, 70) \o <<"\"","."," ","T","h","e"," ","r","e","p","o","s","i","t","o","r","y"," ","i","n","d","e","x"," ","n","e","e","d","s"," ","s","t","r","o","n","g","e","r"," ","m","a","t","c","h","i","n","g"," ","e","v","i","d","e","n","c","e"," ","f","o","r"," ","t","h","i","s"," ","q","u","e","s","t","i","o","n"," ","b","e","f","o","r","e"," ","I"," ","c","a","n"," ","d","e","s","c","r","i","b","e"," ","t","h","e"," ","b","e","h","a","v","i","o","r"," ","r","e","l","i","a","b","l","y",".">>

\* const steps: string[] after `if (when) steps.push(text)` for each entry in
\* turn
pushed(entries) ==
  [i \in 1..Len(SelectSeq(entries, LAMBDA e : e.when)) |-> SelectSeq(entries, LAMBDA e : e.when)[i].text]

\* route.ts 836-839
signinOptions(auth) ==
  pushed(<<[when |-> auth.credentialSignIn, text |-> <<"c","r","e","d","e","n","t","i","a","l","s","-","b","a","s","e","d"," ","s","i","g","n","-","i","n">>],
           [when |-> auth.socialGoogle, text |-> <<"G","o","o","g","l","e"," ","s","i","g","n","-","i","n">>],
           [when |-> auth.socialGithub, text |-> <<"G","i","t","H","u","b"," ","s","i","g","n","-","i","n">>]>>)

\* route.ts 842-846
signinSentence(options) ==
  IF Len(options) > 0
  THEN <<"S","i","g","n","-","i","n"," ","o","p","t","i","o","n","s"," ","v","i","s","i","b","l","e"," ","i","n"," ","t","h","e"," ","i","m","p","l","e","m","e","n","t","e","d"," ","f","l","o","w",":"," ">> \o join(options, <<","," ">>) \o <<".">>
  ELSE <<"T","h","e"," ","a","u","t","h"," ","f","l","o","w"," ","i","s"," ","p","r","e","s","e","n","t",","," ","b","u","t"," ","s","p","e","c","i","f","i","c"," ","s","i","g","n","-","i","n"," ","o","p","t","i","o","n","s"," ","a","r","e"," ","n","o","t"," ","s","t","r","o","n","g","l","y"," ","i","d","e","n","t","i","f","i","a","b","l","e"," ","f","r","o","m"," ","i","n","d","e","x","e","d"," ","s","t","r","u","c","t","u","r","e"," ","y","e","t",".">>

\* route.ts 835-865
authNarrative(auth, edgeCount) ==
  join(<<signinSentence(signinOptions(auth))>>
       \o pushed(<<[when |-> auth.validation, text |-> <<"A","f","t","e","r"," ","s","i","g","n","-","i","n"," ","i","s"," ","s","u","b","m","i","t","t","e","d",","," ","t","h","e"," ","s","y","s","t","e","m"," ","v","a","l","i","d","a","t","e","s"," ","i","d","e","n","t","i","t","y"," ","b","e","f","o","r","e"," ","g","r","a","n","t","i","n","g"," ","a","c","c","e","s","s",".">>],
                   [when |-> auth.session, text |-> <<"O","n"," ","s","u","c","c","e","s","s",","," ","a","n"," ","a","u","t","h","e","n","t","i","c","a","t","e","d"," ","s","e","s","s","i","o","n"," ","i","s"," ","e","s","t","a","b","l","i","s","h","e","d"," ","s","o"," ","u","s","e","r","s"," ","c","a","n"," ","a","c","c","e","s","s"," ","p","r","o","t","e","c","t","e","d"," ","a","r","e","a","s",".">>],
                   [when |-> auth.redirect, text |-> <<"U","s","e","r","s"," ","a","r","e"," ","t","h","e","n"," ","m","o","v","e","d"," ","i","n","t","o"," ","t","h","e"," ","m","a","i","n"," ","p","r","o","d","u","c","t"," ","e","x","p","e","r","i","e","n","c","e"," ","a","f","t","e","r"," ","s","u","c","c","e","s","s","f","u","l"," ","a","u","t","h","e","n","t","i","c","a","t","i","o","n",".">>],
                   [when |-> auth.signOut, text |-> <<"S","i","g","n","-","o","u","t"," ","i","s"," ","s","u","p","p","o","r","t","e","d"," ","a","n","d"," ","c","l","e","a","r","s"," ","a","c","t","i","v","e"," ","a","c","c","e","s","s",".">>]>>),
       <<" ">>)
  \o <<" ">>
  \o (IF edgeCount >= HighConfidenceEdges
      THEN <<"C","o","n","f","i","d","e","n","c","e"," ","i","s"," ","h","i","g","h"," ","b","e","c","a","u","s","e"," ","m","u","l","t","i","p","l","e"," ","c","o","n","n","e","c","t","e","d"," ","a","u","t","h","-","r","e","l","a","t","e","d"," ","r","e","l","a","t","i","o","n","s","h","i","p","s"," ","w","e","r","e"," ","f","o","u","n","d",".">>
      ELSE <<"C","o","n","f","i","d","e","n","c","e"," ","i","s"," ","m","o","d","e","r","a","t","e"," ","b","e","c","a","u","s","e"," ","t","h","e"," ","a","u","t","h"," ","f","l","o","w"," ","i","s"," ","i","n","f","e","r","r","e","d"," ","f","r","o","m"," ","p","a","r","t","i","a","l"," ","b","u","t"," ","r","e","l","e","v","a","n","t"," ","s","t","r","u","c","t","u","r","a","l"," ","e","v","i","d","e","n","c","e",".">>)

\* route.ts 867-875
stageBuckets(relatedEntities) ==
  [stage \in {"initiation", "validation", "processing", "state_update", "integration", "outcome"} |->
     Cardinality({i \in 1..Len(relatedEntities) : inferStageFromEntity(relatedEntities[i]) = stage})]

\* route.ts 877-895
stageSteps(buckets) ==
  pushed(<<[when |-> buckets["initiation"] > 0, text |-> <<"1",")"," ","U","s","e","r","s"," ","i","n","i","t","i","a","t","e"," ","t","h","e"," ","f","l","o","w"," ","t","h","r","o","u","g","h"," ","a"," ","c","l","e","a","r"," ","e","n","t","r","y"," ","a","c","t","i","o","n"," ","i","n"," ","t","h","e"," ","p","r","o","d","u","c","t"," ","e","x","p","e","r","i","e","n","c","e",".">>],
           [when |-> buckets["validation"] > 0, text |-> <<"2",")"," ","T","h","e"," ","s","y","s","t","e","m"," ","r","u","n","s"," ","v","a","l","i","d","a","t","i","o","n","/","a","u","t","h","o","r","i","z","a","t","i","o","n"," ","c","h","e","c","k","s"," ","b","e","f","o","r","e"," ","m","o","v","i","n","g"," ","f","o","r","w","a","r","d",".">>],
           [when |-> buckets["processing"] > 0, text |-> <<"3",")"," ","C","o","r","e"," ","b","u","s","i","n","e","s","s"," ","p","r","o","c","e","s","s","i","n","g"," ","e","x","e","c","u","t","e","s"," ","t","h","e"," ","r","e","q","u","e","s","t","e","d"," ","o","p","e","r","a","t","i","o","n",".">>],
           [when |-> buckets["state_update"] > 0, text |-> <<"4",")"," ","A","p","p","l","i","c","a","t","i","o","n"," ","s","t","a","t","e"," ","a","n","d"," ","r","e","c","o","r","d","s"," ","a","r","e"," ","u","p","d","a","t","e","d"," ","t","o"," ","r","e","f","l","e","c","t"," ","t","h","e"," ","r","e","s","u","l","t",".">>],
           [when |-> buckets["integration"] > 0, text |-> <<"5",")"," ","E","x","t","e","r","n","a","l","/","i","n","t","e","r","n","a","l"," ","i","n","t","e","g","r","a","t","i","o","n","s"," ","a","r","e"," ","i","n","v","o","l","v","e","d"," ","w","h","e","r","e"," ","r","e","q","u","i","r","e","d",".">>],
           [when |-> buckets["outcome"] > 0, text |-> <<"6",")"," ","T","h","e"," ","u","s","e","r"," ","r","e","c","e","i","v","e","s"," ","t","h","e"," ","f","i","n","a","l"," ","o","u","t","c","o","m","e"," ","a","n","d"," ","n","e","x","t","-","s","t","e","p"," ","s","t","a","t","u","s",".">>]>>)

\* route.ts 896-898
orStandardPattern(steps) ==
  IF Len(steps) = 0
  THEN <<<<"T","h","e"," ","f","l","o","w"," ","a","p","p","e","a","r","s"," ","t","o"," ","f","o","l","l","o","w"," ","a"," ","s","t","a","n","d","a","r","d"," ","r","e","q","u","e","s","t"," ","-",">"," ","v","a","l","i","d","a","t","i","o","n"," ","-",">"," ","p","r","o","c","e","s","s","i","n","g"," ","-",">"," ","o","u","t","c","o","m","e"," ","p","a","t","t","e","r","n",".">>>>
  ELSE steps

\* route.ts 867-904
stageNarrative(relatedEntities, edgeCount) ==
  join(orStandardPattern(stageSteps(stageBuckets(relatedEntities))), <<" ">>)
  \o <<" ">>
  \o (IF edgeCount >= HighConfidenceEdges
      THEN <<"C","o","n","f","i","d","e","n","c","e"," ","i","s"," ","h","i","g","h"," ","b","e","c","a","u","s","e"," ","t","h","e"," ","f","l","o","w"," ","i","s"," ","s","u","p","p","o","r","t","e","d"," ","b","y"," ","m","u","l","t","i","p","l","e"," ","c","o","n","n","e","c","t","e","d"," ","s","t","r","u","c","t","u","r","a","l"," ","r","e","l","a","t","i","o","n","s","h","i","p","s",".">>
      ELSE <<"C","o","n","f","i","d","e","n","c","e"," ","i","s"," ","m","o","d","e","r","a","t","e"," ","b","e","c","a","u","s","e"," ","t","h","e"," ","f","l","o","w"," ","i","s"," ","i","n","f","e","r","r","e","d"," ","f","r","o","m"," ","p","a","r","t","i","a","l"," ","b","u","t"," ","r","e","l","e","v","a","n","t"," ","s","t","r","u","c","t","u","r","a","l"," ","r","e","l","a","t","i","o","n","s","h","i","p","s",".">>)

\* route.ts 812-815
scoredAgainst(entities, queryKeywords) ==
  sortByScoreDesc(SelectSeq([i \in 1..Len(entities) |->
                               [entity |-> entities[i], score |-> scoreEntityAgainstKeywords(entities[i], queryKeywords)]],
                            LAMBDA x : x.score > 0))

\* route.ts 821
anchorIdsOf(scored) == {x.entity.id : x \in Range(slice(scored, FallbackAnchorCap))}

\* route.ts 822
relatedEdgesOf(relationships, anchorIds) ==
  SelectSeq(relationships, LAMBDA edge : edge.source_entity_id \in anchorIds \/ edge.target_entity_id \in anchorIds)

\* route.ts 823-828
relatedIdsOf(anchorIds, relatedEdges) ==
  anchorIds \cup {edge.source_entity_id : edge \in Range(slice(relatedEdges, FallbackEdgeCap))}
            \cup {edge.target_entity_id : edge \in Range(slice(relatedEdges, FallbackEdgeCap))}

\* route.ts 830
relatedEntitiesOf(entities, relatedIds) ==
  slice(SelectSeq(entities, LAMBDA entity : entity.id \in relatedIds), FallbackRelatedCap)

\* route.ts 831-832
isAuthQuestion(question) ==
  containsAnyPhrase(toLowerCase(question), <<<<"a","u","t","h">>, <<"l","o","g","i","n">>, <<"s","i","g","n"," ","i","n">>, <<"s","i","g","n","i","n">>, <<"s","i","g","n","u","p">>, <<"s","i","g","n"," ","u","p">>, <<"o","a","u","t","h">>, <<"s","e","s","s","i","o","n">>, <<"t","o","k","e","n">>>>)

\* route.ts 830-904: the narrative over the related entities
narrate(question, relatedEntities, edgeCount) ==
  IF isAuthQuestion(question)
  THEN authNarrative(inferAuthCapabilities(relatedEntities), edgeCount)
  ELSE stageNarrative(relatedEntities, edgeCount)

\* route.ts 822-904
narrateEdges(question, entities, anchorIds, relatedEdges) ==
  narrate(question, relatedEntitiesOf(entities, relatedIdsOf(anchorIds, relatedEdges)), Len(relatedEdges))

\* route.ts 821-904
narrateAnchors(question, entities, relationships, anchorIds) ==
  narrateEdges(question, entities, anchorIds, relatedEdgesOf(relationships, anchorIds))

\* route.ts 817-904
narrateScored(question, entities, relationships, scored) ==
  IF Len(scored) = 0 THEN MsgLowEvidence(question)
  ELSE narrateAnchors(question, entities, relationships, anchorIdsOf(scored))

\* route.ts 807-905
buildDeterministicFallbackAnswer(question, entities, relationships) ==
  IF Len(entities) = 0 THEN MsgNoIndexedStructure
  ELSE narrateScored(question, entities, relationships,
                     scoredAgainst(entities, extractKeywordsFromQuestion(question)))

(***************************************************************************)
(* JavaScript values, as far as the code inspects them: what JSON.parse and  *)
(* response.json() hand to the orchestrator.                                *)
(***************************************************************************)
Undefined == [t |-> "undefined"]

Null == [t |-> "null"]

Str(s) == [t |-> "string", v |-> s]

Num(n) == [t |-> "number", v |-> n]

Arr(xs) == [t |-> "array", v |-> xs]

Obj(fields) == [t |-> "object", v |-> fields]

\* an array of strings
Strings(xs) == Arr([i \in 1..Len(xs) |-> Str(xs[i])])

\* typeof x === 'string'
isString(x) == x.t = "string"

\* Array.isArray(x)
isArray(x) == x.t = "array"

\* Boolean(x): undefined, null, '' and 0 are falsy
truthy(x) ==
  CASE x.t \in {"undefined", "null"} -> FALSE
    [] x.t = "string" -> x.v # <<>>
    [] x.t = "number" -> x.v # 0
    [] OTHER -> TRUE

\* x.name is a TypeError when x is null or undefined
nullish(x) == x.t \in {"undefined", "null"}

\* x?.name, and x.name for an x that is not nullish
get(x, name) == IF x.t = "object" /\ name \in DOMAIN x.v THEN x.v[name] ELSE Undefined

\* x.length: defined for strings and arrays only
hasLength(x) == x.t \in {"string", "array"}

\* the characters the loop of tokenizeWords visits in a value: a value without a
\* length has none (i < undefined is false)
charsOf(x) == IF isString(x) THEN x.v ELSE <<>>

(***************************************************************************)
(* The replies of the language-model service used as inputs: the content of  *)
(* a chat completion, as text.                                              *)
(***************************************************************************)
TextNull == <<"n","u","l","l">>

TextEmptyObject == <<"{","}">>

TextNotJson == <<"S","u","r","e",","," ","h","e","r","e"," ","i","t"," ","i","s">>

TextFrontdeskReply == <<"{","\"","m","o","d","e","\"",":","\"","r","e","p","l","y","\"",",","\"","h","u","m","a","n","_","m","e","s","s","a","g","e","\"",":","\"","H","e","l","l","o","!","\"","}">>

TextFrontdeskRoute == <<"{","\"","m","o","d","e","\"",":","\"","r","o","u","t","e","\"",",","\"","r","e","f","i","n","e","d","_","q","u","e","s","t","i","o","n","\"",":","\"","h","o","w"," ","d","o","e","s"," ","l","o","g","i","n"," ","w","o","r","k","\"","}">>

TextFrontdeskChat == <<"{","\"","m","o","d","e","\"",":","\"","c","h","a","t","\"","}">>

TextIntentGreeting == <<"{","\"","i","n","t","e","n","t","_","t","y","p","e","\"",":","\"","g","r","e","e","t","i","n","g","\"",",","\"","i","n","t","e","n","t","\"",":","\"","g","r","e","e","t","i","n","g","\"",",","\"","k","e","y","w","o","r","d","s","\"",":","[","]","}">>

TextIntentRepo == <<"{","\"","i","n","t","e","n","t","_","t","y","p","e","\"",":","\"","r","e","p","o","_","q","u","e","s","t","i","o","n","\"",",","\"","i","n","t","e","n","t","\"",":","\"","a","u","t","h","_","f","l","o","w","\"",",","\"","k","e","y","w","o","r","d","s","\"",":","[","\"","L","o","g","i","n","\"",",","\"","a","u","t","h","\"","]","}">>

TextExpansion == <<"{","\"","e","x","p","a","n","d","e","d","_","k","e","y","w","o","r","d","s","\"",":","[","\"","s","e","s","s","i","o","n","\"",",","\"","t","o","k","e","n","\"","]","}">>

TextAnchors == <<"{","\"","f","l","o","w","_","a","n","c","h","o","r","s","\"",":","[","\"","a","u","t","h","e","n","t","i","c","a","t","i","o","n"," ","f","l","o","w","\"","]","}">>

TextReasoning == <<"{","\"","f","i","n","d","i","n","g","s","\"",":","[","\"","u","s","e","r","s"," ","s","i","g","n"," ","i","n","\"","]",",","\"","u","n","k","n","o","w","n","s","\"",":","[","]",",","\"","c","o","n","s","t","r","a","i","n","t","s","\"",":","[","]","}">>

TextReasoningNoUnknowns == <<"{","\"","f","i","n","d","i","n","g","s","\"",":","[","\"","u","s","e","r","s"," ","s","i","g","n"," ","i","n","\"","]","}">>

TextReasoningNoFindings == <<"{","\"","f","i","n","d","i","n","g","s","\"",":","[","]",",","\"","u","n","k","n","o","w","n","s","\"",":","[","\"","n","o"," ","d","a","t","a","\"","]","}">>

\* openai.ts 50: JSON.parse on the texts above; ok is FALSE when it throws
JSONparse(text) ==
  CASE text = TextNull -> [ok |-> TRUE, value |-> Null]
    [] text = TextEmptyObject -> [ok |-> TRUE, value |-> Obj(<<>>)]
    [] text = TextFrontdeskReply ->
         [ok |-> TRUE, value |-> Obj([mode |-> Str(<<"r","e","p","l","y">>), human_message |-> Str(<<"H","e","l","l","o","!">>)])]
    [] text = TextFrontdeskRoute ->
         [ok |-> TRUE, value |-> Obj([mode |-> Str(<<"r","o","u","t","e">>), refined_question |-> Str(<<"h","o","w"," ","d","o","e","s"," ","l","o","g","i","n"," ","w","o","r","k">>)])]
    [] text = TextFrontdeskChat -> [ok |-> TRUE, value |-> Obj([mode |-> Str(<<"c","h","a","t">>)])]
    [] text = TextIntentGreeting ->
         [ok |-> TRUE, value |-> Obj([intent_type |-> Str(<<"g","r","e","e","t","i","n","g">>), intent |-> Str(<<"g","r","e","e","t","i","n","g">>), keywords |-> Arr(<<>>)])]
    [] text = TextIntentRepo ->
         [ok |-> TRUE, value |-> Obj([intent_type |-> Str(<<"r","e","p","o","_","q","u","e","s","t","i","o","n">>), intent |-> Str(<<"a","u","t","h","_","f","l","o","w">>),
                                       keywords |-> Strings(<<<<"L","o","g","i","n">>, <<"a","u","t","h">>>>)])]
    [] text = TextExpansion -> [ok |-> TRUE, value |-> Obj([expanded_keywords |-> Strings(<<<<"s","e","s","s","i","o","n">>, <<"t","o","k","e","n">>>>)])]
    [] text = TextAnchors -> [ok |-> TRUE, value |-> Obj([flow_anchors |-> Strings(<<<<"a","u","t","h","e","n","t","i","c","a","t","i","o","n"," ","f","l","o","w">>>>)])]
    [] text = TextReasoning ->
         [ok |-> TRUE, value |-> Obj([findings |-> Strings(<<<<"u","s","e","r","s"," ","s","i","g","n"," ","i","n">>>>), unknowns |-> Arr(<<>>), constraints |-> Arr(<<>>)])]
    [] text = TextReasoningNoUnknowns -> [ok |-> TRUE, value |-> Obj([findings |-> Strings(<<<<"u","s","e","r","s"," ","s","i","g","n"," ","i","n">>>>)])]
    [] text = TextReasoningNoFindings ->
         [ok |-> TRUE, value |-> Obj([findings |-> Arr(<<>>), unknowns |-> Strings(<<<<"n","o"," ","d","a","t","a">>>>)])]
    [] OTHER -> [ok |-> FALSE, value |-> Undefined]

(***************************************************************************)
(* One HTTP exchange with the language-model service, as the caller sees it. *)
(***************************************************************************)
\* fetch rejects
NetworkError == [kind |-> "network_error", content |-> Undefined]

\* response.ok is false
HttpError == [kind |-> "http_error", content |-> Undefined]

\* response.json() rejects
BadBody == [kind |-> "bad_body", content |-> Undefined]

\* a body was read; content is data?.choices?.[0]?.message?.content for a chat
\* completion and the payload for an embeddings request
Body(content) == [kind |-> "ok", content |-> content]

\* the exchanges that carry no usable content
Failures == {NetworkError, HttpError, BadBody, Body(Undefined), Body(Str(TextNotJson))}

\* a settled promise
Fulfilled(value) == [state |-> "fulfilled", value |-> value]

Rejected == [state |-> "rejected", value |-> Undefined]

\* a promise that has not settled when the timer fires
Pending == [state |-> "pending", value |-> Undefined]

\* openai.ts 19-55
runOpenAIJson(apiKey, exchange, fallback) ==
  IF ~apiKey THEN fallback
  ELSE IF exchange.kind # "ok" THEN fallback
  ELSE IF ~truthy(exchange.content) \/ ~isString(exchange.content) THEN fallback
  ELSE IF ~JSONparse(exchange.content.v).ok THEN fallback
  ELSE JSONparse(exchange.content.v).value

\* openai.ts 57-89
runOpenAIText(apiKey, exchange, fallback) ==
  IF ~apiKey THEN fallback
  ELSE IF exchange.kind # "ok" THEN fallback
  ELSE IF truthy(exchange.content) THEN exchange.content ELSE fallback

\* route.ts 933-946: the value the returned promise resolves to
withTimeout(promise, fallback) ==
  IF promise.state = "fulfilled" THEN promise.value ELSE fallback

\* route.ts 671-678
normalizeKeywords(value) ==
  IF ~isArray(value) THEN <<>>
  ELSE LET strs == SelectSeq(value.v, LAMBDA x : isString(x))
           norm == [i \in 1..Len(strs) |-> toLowerCase(trim(strs[i].v))]
       IN slice(SelectSeq(norm, LAMBDA x : Len(x) > 1), NormalizeKeywordsCap)

FlowAnchorMaxLen == 48

FlowAnchorCap == 8

FallbackDomainCap == 6

\* `${domain} flow` for each of the first six dominant domains
domainFlowAnchors(dominantDomains) ==
  [i \in 1..Len(slice(dominantDomains, FallbackDomainCap)) |-> dominantDomains[i] \o <<" ","f","l","o","w">>]

\* route.ts 1071-1104: the value generateFlowAnchors resolves to
generateFlowAnchors(apiKey, exchange, dominantDomains) ==
  LET fallback == Obj([flow_anchors |-> Strings(domainFlowAnchors(dominantDomains))])
      parsed == runOpenAIJson(apiKey, exchange, fallback)
      anchors == IF isArray(get(parsed, "flow_anchors"))
                 THEN SelectSeq(get(parsed, "flow_anchors").v, LAMBDA x : isString(x))
                 ELSE <<>>
      compacted == [i \in 1..Len(anchors) |-> compactText(toLowerCase(anchors[i].v), FlowAnchorMaxLen)]
      normalized == slice(dedupe(SelectSeq(compacted, LAMBDA a : Len(a) > 3)), FlowAnchorCap)
  IN IF Len(normalized) > 0 THEN normalized ELSE domainFlowAnchors(dominantDomains)

\* route.ts 969-991: the promise generateEmbeddingBatch returns; a vector is
\* the tuple of the numbers of the row's embedding
generateEmbeddingBatch(apiKey, inputs, exchange) ==
  IF ~apiKey \/ inputs = <<>> THEN Fulfilled(<<>>)
  ELSE IF exchange.kind \in {"network_error", "bad_body"} THEN Rejected
  ELSE IF exchange.kind = "http_error" THEN Fulfilled(<<>>)
  ELSE LET rows == IF isArray(get(exchange.content, "data")) THEN get(exchange.content, "data").v ELSE <<>>
           numbers(r) == IF isArray(get(r, "embedding"))
                         THEN LET nums == SelectSeq(get(r, "embedding").v, LAMBDA v : v.t = "number")
                              IN [i \in 1..Len(nums) |-> nums[i].v]
                         ELSE <<>>
       IN Fulfilled([i \in 1..Len(rows) |-> numbers(rows[i])])

\* the vagueness corrector called at route.ts 1523, whose code is not in the
\* repository's files: the intent string is empty or unknown, and the keyword
\* list is empty or made only of generic terms
isVagueIntent(intent, intentType, keywords) ==
  /\ (~isString(intent) \/ trim(intent.v) = <<>> \/ toLowerCase(trim(intent.v)) = <<"u","n","k","n","o","w","n">>)
  /\ \A i \in 1..Len(keywords) : keywords[i] \in GENERIC_QUERY_WORDS

(***************************************************************************)
(* Session memory and the embeddings table.                                 *)
(***************************************************************************)
\* the session ids of requests, and the ids route.ts 1309 gives a request
\* without one
Sessions == {<<"s","1">>, <<"s","2">>,
             <<"s","e","s","s","i","o","n","_","r","e","p","o","-","1">>, <<"s","e","s","s","i","o","n","_","r","e","p","o","-","2">>}

Repos == {<<"r","e","p","o","-","1">>, <<"r","e","p","o","-","2">>}

EntityIdSeq == <<"E1", "E2", "E3", "E9">>

\* the key of chat_session_memory: (session_id, repository_id, entity_id)
MemoryKeys == Sessions \X Repos \X EntityIds

EmptyMemory == [k \in MemoryKeys |-> 0]

\* the memory of session s1 after earlier turns on both repositories
SeededMemory ==
  [k \in MemoryKeys |->
     CASE k = <<<<"s","1">>, <<"r","e","p","o","-","1">>, "E1">> -> 2
       [] k = <<<<"s","1">>, <<"r","e","p","o","-","1">>, "E2">> -> 1
       [] k = <<<<"s","1">>, <<"r","e","p","o","-","1">>, "E3">> -> 1
       [] k = <<<<"s","1">>, <<"r","e","p","o","-","2">>, "E9">> -> 1
       [] OTHER -> 0]

NoEmbeddings == [id \in EntityIds |-> <<>>]

\* the embeddings table after an earlier backfill of E1 and E2
StoredEmbeddings == [id \in EntityIds |-> CASE id = "E1" -> <<0, 1>> [] id = "E2" -> <<1, 0>> [] OTHER -> <<>>]

\* the stores a turn can start from
Stores == {[memory |-> EmptyMemory, embeddings |-> NoEmbeddings],
           [memory |-> SeededMemory, embeddings |-> StoredEmbeddings]}

\* route.ts 993-1006: the rows of the key's session and repository, heaviest
\* first, rows of equal weight in table order
readSessionMemoryEntities(mem, sessionId, repositoryId) ==
  LET rows == SelectSeq([i \in 1..Len(EntityIdSeq) |-> [id |-> EntityIdSeq[i], score |-> mem[<<sessionId, repositoryId, EntityIdSeq[i]>>]]],
                        LAMBDA row : row.score > 0)
      sorted == slice(sortByScoreDesc(rows), SessionMemoryReadLimit)
  IN [i \in 1..Len(sorted) |-> sorted[i].id]

\* an invocation of upsertSessionMemory: its arguments, the index of the entity
\* id its loop is at, and nextWeight
IdleTask == [phase |-> "idle", sessionId |-> <<>>, repositoryId |-> <<>>, entityIds |-> <<>>, i |-> 0, nextWeight |-> 0]

NoTasks == [t \in 1..MaxTasks |-> IdleTask]

\* route.ts 1008-1015: the call runs up to the first select
upsertSessionMemory(sessionId, repositoryId, entityIds) ==
  [phase |-> IF entityIds = <<>> THEN "done" ELSE "read",
   sessionId |-> sessionId, repositoryId |-> repositoryId, entityIds |-> entityIds,
   i |-> IF entityIds = <<>> THEN 0 ELSE 1, nextWeight |-> 0]

\* a variant of UpsertRead that takes every row for a new one
UpsertReadAsNew(t) ==
  /\ tasks[t].phase = "read"
  /\ tasks' = [tasks EXCEPT ![t].phase = "write", ![t].nextWeight = 1]
  /\ UNCHANGED <<memory, embeddings, backfill, turnVars, sanVars, fnVars>>

\* route.ts 1017-1025: the select of the row's weight resolves
UpsertRead(t) ==
  /\ tasks[t].phase = "read"
  /\ LET existing == memory[<<tasks[t].sessionId, tasks[t].repositoryId, tasks[t].entityIds[tasks[t].i]>>]
     IN tasks' = [tasks EXCEPT ![t].phase = "write",
                               ![t].nextWeight = IF existing > 0 THEN existing + 1 ELSE 1]
  /\ UNCHANGED <<memory, embeddings, backfill, turnVars, sanVars, fnVars>>

\* a variant of UpsertWrite whose upsert adds the written weight to the stored one
UpsertWriteAdds(t) ==
  /\ tasks[t].phase = "write"
  /\ memory' = [memory EXCEPT ![<<tasks[t].sessionId, tasks[t].repositoryId, tasks[t].entityIds[tasks[t].i]>>] = @ + tasks[t].nextWeight]
  /\ tasks' = [tasks EXCEPT ![t].phase = IF tasks[t].i < Len(tasks[t].entityIds) THEN "read" ELSE "done",
                            ![t].i = IF tasks[t].i < Len(tasks[t].entityIds) THEN tasks[t].i + 1 ELSE tasks[t].i]
  /\ UNCHANGED <<embeddings, backfill, turnVars, sanVars, fnVars>>

\* route.ts 1026-1038: the upsert of the row resolves, and the loop goes on
UpsertWrite(t) ==
  /\ tasks[t].phase = "write"
  /\ memory' = [memory EXCEPT ![<<tasks[t].sessionId, tasks[t].repositoryId, tasks[t].entityIds[tasks[t].i]>>] = tasks[t].nextWeight]
  /\ tasks' = [tasks EXCEPT ![t].phase = IF tasks[t].i < Len(tasks[t].entityIds) THEN "read" ELSE "done",
                            ![t].i = IF tasks[t].i < Len(tasks[t].entityIds) THEN tasks[t].i + 1 ELSE tasks[t].i]
  /\ UNCHANGED <<embeddings, backfill, turnVars, sanVars, fnVars>>

(***************************************************************************)
(* The lazy embedding backfill (route.ts 1204-1300).                        *)
(***************************************************************************)
BackfillCandidateCap == 20

EMBEDDING_BATCH_SIZE == 20

IdleBackfill == [phase |-> "idle", candidates |-> <<>>, missing |-> <<>>, rows |-> <<>>]

\* route.ts 1210-1222: the call runs up to the select of the stored ids
runMetalBatWorker(entities) ==
  [phase |-> "read", candidates |-> [i \in 1..Len(slice(entities, BackfillCandidateCap)) |-> entities[i].id],
   missing |-> <<>>, rows |-> <<>>]

\* the payload of an embeddings reply that carries three vectors
EmbeddingPayload(vector) ==
  Obj([data |-> Arr([i \in 1..3 |-> Obj([embedding |-> Arr([j \in 1..Len(vector) |-> Num(vector[j])])])])])

BackfillExchanges == {NetworkError, HttpError, Body(EmbeddingPayload(<<3, 4>>))}

\* route.ts 1260-1274: a row for every missing entity that got a vector
backfillRows(missing, vectors) ==
  SelectSeq([i \in 1..Len(missing) |-> [entity_id |-> missing[i], embedding |-> IF i <= Len(vectors) THEN vectors[i] ELSE <<>>]],
            LAMBDA row : row.embedding # <<>>)

\* what the worker does with the batch promise (route.ts 1253-1287)
afterBackfillBatch(worker, missing, batch) ==
  IF batch.state = "rejected" \/ backfillRows(missing, batch.value) = <<>>
  THEN [worker EXCEPT !.phase = "done", !.missing = missing]
  ELSE [worker EXCEPT !.phase = "write", !.missing = missing, !.rows = backfillRows(missing, batch.value)]

\* route.ts 1223-1253: what the worker does with the stored ids it selected
afterBackfillSelect(worker, stored, apiKey) ==
  LET missing == SelectSeq(worker.candidates, LAMBDA id : stored[id] = <<>>)
  IN IF missing = <<>> THEN [worker EXCEPT !.phase = "done"]
     ELSE IF ~apiKey THEN afterBackfillBatch(worker, missing, generateEmbeddingBatch(apiKey, missing, HttpError))
     ELSE [worker EXCEPT !.phase = "embed", !.missing = missing]

\* route.ts 1276-1278: the upsert of the rows, onConflict repository_id,entity_id:
\* a row of the table with the key of a written row is replaced
upsertEmbeddingRows(stored, rows) ==
  [id \in EntityIds |->
     IF \E i \in 1..Len(rows) : rows[i].entity_id = id
     THEN rows[CHOOSE i \in 1..Len(rows) : rows[i].entity_id = id].embedding
     ELSE stored[id]]

\* route.ts 1223-1253: the select of the stored ids resolves
BackfillRead ==
  /\ backfill.phase = "read"
  /\ backfill' = afterBackfillSelect(backfill, embeddings, env.apiKey)
  /\ UNCHANGED <<memory, embeddings, tasks, turnVars, sanVars, fnVars>>

\* a variant of BackfillEmbedded that surfaces a failed embeddings request in
\* the response of the turn
BackfillEmbeddedSurfacesFailure ==
  /\ backfill.phase = "embed"
  /\ \E exchange \in BackfillExchanges :
       \E batch \in {generateEmbeddingBatch(env.apiKey, backfill.missing, exchange)} :
         /\ backfill' = afterBackfillBatch(backfill, backfill.missing, batch)
         /\ resp' = IF batch.state = "rejected" THEN [resp EXCEPT !.status = 500] ELSE resp
  /\ UNCHANGED <<memory, embeddings, tasks, env, pc, loc, timer, calls, sanVars, fnVars>>

\* route.ts 1253-1287: the embeddings request settles
BackfillEmbedded ==
  /\ backfill.phase = "embed"
  /\ \E exchange \in BackfillExchanges :
       backfill' = afterBackfillBatch(backfill, backfill.missing, generateEmbeddingBatch(env.apiKey, backfill.missing, exchange))
  /\ UNCHANGED <<memory, embeddings, tasks, turnVars, sanVars, fnVars>>

\* route.ts 1276-1299: the upsert of the rows resolves (one batch: the rows are
\* fewer than EMBEDDING_BATCH_SIZE)
BackfillWrite ==
  /\ backfill.phase = "write"
  /\ embeddings' = upsertEmbeddingRows(embeddings, backfill.rows)
  /\ backfill' = [backfill EXCEPT !.phase = "done"]
  /\ UNCHANGED <<memory, tasks, turnVars, sanVars, fnVars>>

(***************************************************************************)
(* The orchestrator: one turn of POST (route.ts 1302-1818).  An action is    *)
(* the settling of the await POST is suspended at, followed by the code up   *)
(* to the next await.  The debug object of the response and the contents of  *)
(* the log records are not modelled: the promise of IngestionLogger.log is   *)
(* always fulfilled, with no value (log, below).  The reads of the database *)
(* succeed.                                                                 *)
(***************************************************************************)
RESPONSE_BUDGET_MS == 1900

FrontdeskBudgetMs == 450

IntentBudgetMs == 700

GreetingBudgetMs == 450

ExpansionBudgetMs == 500

AnchorsBudgetMs == 500

ReasoningBudgetMs == 600

TranslationBudgetMs == 450

ObjectiveMaxLen == 120

VagueDomainCap == 6

VagueKeywordCap == 16

SessionPriorityCap == 20

DomainFallbackCap == 8

SeedCap == 80

CandidateCap == 80

UsedEntityCap == 20

\* request.json() rejects
Malformed == [t |-> "malformed"]

Questions == {Undefined, Str(<<" ">>), Str(<<"h","i"," ","t","h","e","r","e">>), Str(<<"h","o","w"," ","d","o","e","s"," ","l","o","g","i","n"," ","w","o","r","k">>), Str(<<"z","z","z">>)}

RepositoryIds == {Undefined, Str(<<"r","e","p","o","-","1">>), Str(<<"r","e","p","o","-","2">>)}

\* a question of thirteen distinct words
LongQuestion == <<"a","d","d"," ","b","u","y"," ","c","u","t"," ","d","i","g"," ","e","a","t"," ","f","l","y"," ","g","e","t"," ","h","o","p"," ","j","o","g"," ","k","i","d"," ","l","a","p"," ","m","i","x"," ","n","a","p">>

\* bodies with a session id, and bodies without one
Bodies ==
  {Malformed}
    \cup {Obj([question |-> q, repositoryId |-> r, sessionId |-> Str(<<"s","1">>)]) : q \in Questions, r \in RepositoryIds}
    \cup {Obj([question |-> q, repositoryId |-> Str(<<"r","e","p","o","-","1">>)]) :
            q \in {Undefined, Str(<<"h","o","w"," ","d","o","e","s"," ","l","o","g","i","n"," ","w","o","r","k">>), Str(LongQuestion)}}

\* body: what request.json() settles to; token: the request carries a bearer
\* token; apiKey: OPENAI_API_KEY is set
Envs == [body : Bodies, token : BOOLEAN, apiKey : BOOLEAN]

NoLocals ==
  [question |-> <<>>, repositoryId |-> <<>>, sessionId |-> <<>>,
   frontdeskMode |-> "", refinedQuestion |-> <<>>, frontdeskMessage |-> <<>>,
   gojo |-> Undefined, gojoKeywords |-> <<>>, fallbackQuestionKeywords |-> <<>>,
   dominantDomains |-> <<>>, weakGojo |-> FALSE, finalGojoKeywords |-> <<>>,
   memoryEntities |-> <<>>, expandedKeywords |-> <<>>, flowAnchors |-> <<>>, anchorTerms |-> <<>>,
   retrievalKeywords |-> <<>>, sessionPriority |-> <<>>, keywordMatched |-> <<>>, domainFallbackUsed |-> FALSE,
   seeds |-> <<>>, expandedEntities |-> <<>>, relationships |-> <<>>, candidateEntities |-> <<>>,
   sukuna |-> Undefined, deterministicFallback |-> <<>>, yujiAnswerRaw |-> Undefined, usedEntityIds |-> <<>>,
   correctedGojo |-> Undefined]

NoResponse == [status |-> 0, answer |-> Undefined]

\* route.ts 1374
FrontdeskHumanMessage == <<"G","o","t"," ","i","t","."," ","L","e","t"," ","m","e"," ","a","n","a","l","y","z","e"," ","t","h","a","t"," ","f","r","o","m"," ","y","o","u","r"," ","r","e","p","o","s","i","t","o","r","y"," ","c","o","n","t","e","x","t",".">>

\* route.ts 1468
GreetingFallback == <<"H","i","!"," ","H","a","p","p","y"," ","t","o"," ","h","e","l","p","."," ","A","s","k"," ","m","e"," ","w","h","a","t"," ","f","l","o","w","s"," ","a","r","e"," ","i","m","p","l","e","m","e","n","t","e","d"," ","i","n"," ","y","o","u","r"," ","p","r","o","d","u","c","t",","," ","a","n","d"," ","I"," ","w","i","l","l"," ","e","x","p","l","a","i","n"," ","t","h","e","m"," ","i","n"," ","p","r","o","d","u","c","t"," ","l","a","n","g","u","a","g","e",".">>

\* route.ts 1665
MsgNoStructuralContext == <<"I"," ","c","o","u","l","d"," ","n","o","t"," ","f","i","n","d"," ","e","n","o","u","g","h"," ","s","t","r","u","c","t","u","r","a","l"," ","c","o","n","t","e","x","t"," ","f","o","r"," ","t","h","i","s"," ","q","u","e","s","t","i","o","n","."," ","R","e","-","r","u","n"," ","i","n","g","e","s","t","i","o","n"," ","t","o"," ","r","e","b","u","i","l","d"," ","t","h","e"," ","s","t","r","u","c","t","u","r","e"," ","i","n","d","e","x",".">>

\* route.ts 1814
MsgGenericFailure == <<"U","n","a","b","l","e"," ","t","o"," ","a","n","s","w","e","r"," ","r","i","g","h","t"," ","n","o","w","."," ","P","l","e","a","s","e"," ","t","r","y"," ","a","g","a","i","n",".">>

\* the stage events of the log
Start(stage) == [stage |-> stage, ev |-> "start"]

End(stage) == [stage |-> stage, ev |-> "end"]

\* What a run of POST's code from one await to the next leaves: where POST is
\* suspended, the timer armed, the locals, the log, the response, and whether
\* the background work was started.
\* POST suspends at an await, with a withTimeout timer of ms milliseconds armed
\* when ms is not 0
Await(at, ms, l, log) ==
  [pc |-> at, timer |-> ms, loc |-> l, calls |-> log, resp |-> NoResponse, background |-> FALSE]

\* a variant of Respond that starts the background work before it returns
RespondStartsBackground(status, answer, l, log) ==
  [pc |-> "done", timer |-> 0, loc |-> l, calls |-> log, resp |-> [status |-> status, answer |-> answer], background |-> TRUE]

\* return NextResponse.json({ answer, ... }, { status })
Respond(status, answer, l, log) ==
  [pc |-> "done", timer |-> 0, loc |-> l, calls |-> log, resp |-> [status |-> status, answer |-> answer], background |-> FALSE]

\* route.ts 1802-1817: the outer catch
Throw(l, log) == Respond(500, Str(MsgGenericFailure), l, log)

\* the turn's variables take the values a run of POST's code left; the memory
\* update and the backfill start when the run started them (route.ts 1742, 1751)
Commit(step) ==
  \E next \in {step} :
    /\ pc' = next.pc
    /\ timer' = next.timer
    /\ loc' = next.loc
    /\ calls' = next.calls
    /\ resp' = next.resp
    /\ tasks' = IF next.background
                THEN [tasks EXCEPT ![1] = upsertSessionMemory(next.loc.sessionId, next.loc.repositoryId, next.loc.usedEntityIds)]
                ELSE tasks
    /\ backfill' = IF next.background THEN runMetalBatWorker(next.loc.candidateEntities) ELSE backfill

\* route.ts 1306-1325
receive(body, token) ==
  LET    question == IF isString(get(body, "question")) THEN trim(get(body, "question").v) ELSE <<>>
         repositoryId == IF isString(get(body, "repositoryId")) THEN trim(get(body, "repositoryId").v) ELSE <<>>
         sessionId == IF isString(get(body, "sessionId")) THEN trim(get(body, "sessionId").v)
                      ELSE <<"s","e","s","s","i","o","n","_">> \o (IF repositoryId # <<>> THEN repositoryId ELSE <<"u","n","k","n","o","w","n">>)
         l == [loc EXCEPT !.question = question, !.repositoryId = repositoryId, !.sessionId = sessionId]
  IN IF body = Malformed THEN Throw(loc, calls)
     ELSE IF question = <<>> THEN Respond(400, Str(<<"Q","u","e","s","t","i","o","n"," ","i","s"," ","r","e","q","u","i","r","e","d">>), l, calls)
     ELSE IF repositoryId = <<>> THEN Respond(400, Str(<<"r","e","p","o","s","i","t","o","r","y","I","d"," ","i","s"," ","r","e","q","u","i","r","e","d">>), l, calls)
     ELSE IF ~token THEN Respond(401, Str(<<"U","n","a","u","t","h","o","r","i","z","e","d">>), l, calls)
     ELSE Await("authorize", 0, l, calls)

\* request.json() settles
Receive ==
  /\ pc = "start"
  /\ Commit(receive(env.body, env.token))
  /\ UNCHANGED <<env, memory, embeddings, sanVars, fnVars>>

\* route.ts 1327-1389
authorize(outcome) ==
  CASE outcome = "no_user" -> Respond(401, Str(<<"U","n","a","u","t","h","o","r","i","z","e","d">>), loc, calls)
    [] outcome = "no_organization" -> Respond(403, Str(<<"N","o"," ","o","r","g","a","n","i","z","a","t","i","o","n"," ","a","c","c","e","s","s">>), loc, calls)
    [] outcome = "no_repository" -> Respond(403, Str(<<"R","e","p","o","s","i","t","o","r","y"," ","n","o","t"," ","a","c","c","e","s","s","i","b","l","e">>), loc, calls)
    [] OTHER -> Await("frontdesk", FrontdeskBudgetMs, loc, Append(calls, Start("frontdesk")))

\* the user, the memberships and the repository are looked up, and the
\* frontdesk call is issued
Authorize ==
  /\ pc = "authorize"
  /\ \E outcome \in {"no_user", "no_organization", "no_repository", "ok"} : Commit(authorize(outcome))
  /\ UNCHANGED <<env, memory, embeddings, sanVars, fnVars>>

\* route.ts 1372-1376
frontdeskFallback(question) ==
  Obj([mode |-> Str(<<"r","o","u","t","e">>), human_message |-> Str(FrontdeskHumanMessage), refined_question |-> Str(question)])

\* a variant of gojoFallback that classifies the question as a greeting
gojoFallbackGreeting(refinedQuestion) ==
  Obj([intent_type |-> Str(<<"g","r","e","e","t","i","n","g">>), intent |-> Str(<<"u","n","k","n","o","w","n">>),
       objective |-> Str(compactText(refinedQuestion, ObjectiveMaxLen)),
       keywords |-> Strings(extractKeywordsFromQuestion(refinedQuestion)),
       answer_style |-> Str(<<"p","r","o","d","u","c","t">>)])

\* route.ts 1442-1448
gojoFallback(refinedQuestion) ==
  Obj([intent_type |-> Str(<<"u","n","c","l","e","a","r">>), intent |-> Str(<<"u","n","k","n","o","w","n">>),
       objective |-> Str(compactText(refinedQuestion, ObjectiveMaxLen)),
       keywords |-> Strings(extractKeywordsFromQuestion(refinedQuestion)),
       answer_style |-> Str(<<"p","r","o","d","u","c","t">>)])

\* a variant of afterFrontdesk that goes on to the intent call only when the
\* mode is 'route'
afterFrontdeskReplyUnlessRoute(frontdesk) ==
  LET mode == IF get(frontdesk, "mode") = Str(<<"r","o","u","t","e">>) THEN "route" ELSE "reply"
      rq == get(frontdesk, "refined_question")
      hm == get(frontdesk, "human_message")
      refinedQuestion == IF isString(rq) /\ Len(trim(rq.v)) > 0 THEN trim(rq.v) ELSE loc.question
      frontdeskMessage == IF isString(hm) /\ Len(trim(hm.v)) > 0 THEN trim(hm.v) ELSE FrontdeskHumanMessage
      l == [loc EXCEPT !.frontdeskMode = mode, !.refinedQuestion = refinedQuestion, !.frontdeskMessage = frontdeskMessage]
      log == Append(calls, End("frontdesk"))
  IN IF mode = "reply" THEN Respond(200, Str(frontdeskMessage), l, log)
     ELSE Await("intent", IntentBudgetMs, l, Append(log, Start("intent")))

\* route.ts 1391-1462
afterFrontdesk(frontdesk) ==
  LET mode == IF get(frontdesk, "mode") = Str(<<"r","e","p","l","y">>) THEN "reply" ELSE "route"
      rq == get(frontdesk, "refined_question")
      hm == get(frontdesk, "human_message")
      refinedQuestion == IF isString(rq) /\ Len(trim(rq.v)) > 0 THEN trim(rq.v) ELSE loc.question
      frontdeskMessage == IF isString(hm) /\ Len(trim(hm.v)) > 0 THEN trim(hm.v) ELSE FrontdeskHumanMessage
      l == [loc EXCEPT !.frontdeskMode = mode, !.refinedQuestion = refinedQuestion, !.frontdeskMessage = frontdeskMessage]
      log == Append(calls, End("frontdesk"))
  IN IF mode = "reply" THEN Respond(200, Str(frontdeskMessage), l, log)
     ELSE Await("intent", IntentBudgetMs, l, Append(log, Start("intent")))

FrontdeskExchanges ==
  Failures \cup {Body(Str(TextFrontdeskReply)), Body(Str(TextFrontdeskRoute)), Body(Str(TextFrontdeskChat)),
                 Body(Str(TextNull)), Body(Str(TextEmptyObject))}

\* route.ts 1378-1389: the frontdesk call settles before the timer fires
FrontdeskReplied ==
  /\ pc = "frontdesk"
  /\ \E exchange \in FrontdeskExchanges :
       Commit(afterFrontdesk(withTimeout(Fulfilled(runOpenAIJson(env.apiKey, exchange, frontdeskFallback(loc.question))),
                                  frontdeskFallback(loc.question))))
  /\ UNCHANGED <<env, memory, embeddings, sanVars, fnVars>>

\* route.ts 935: the timer fires first
FrontdeskTimedOut ==
  /\ pc = "frontdesk"
  /\ timer > 0
  /\ Commit(afterFrontdesk(withTimeout(Pending, frontdeskFallback(loc.question))))
  /\ UNCHANGED <<env, memory, embeddings, sanVars, fnVars>>

\* a variant of afterIntent without the greeting short-circuit
afterIntentNoGreeting(gojo) ==
  LET log == Append(calls, End("intent"))
      l == [loc EXCEPT !.gojo = gojo,
                       !.gojoKeywords = normalizeKeywords(get(gojo, "keywords")),
                       !.fallbackQuestionKeywords = extractKeywordsFromQuestion(loc.refinedQuestion)]
  IN IF nullish(gojo) THEN Throw([loc EXCEPT !.gojo = gojo], log)
     ELSE Await("domains", 0, l, log)

\* route.ts 1464-1510
afterIntent(gojo) ==
  LET log == Append(calls, End("intent"))
      l == [loc EXCEPT !.gojo = gojo,
                       !.gojoKeywords = normalizeKeywords(get(gojo, "keywords")),
                       !.fallbackQuestionKeywords = extractKeywordsFromQuestion(loc.refinedQuestion)]
  IN IF nullish(gojo) THEN Throw([loc EXCEPT !.gojo = gojo], log)
     ELSE IF get(gojo, "intent_type") = Str(<<"g","r","e","e","t","i","n","g">>)
     THEN Await("greeting", GreetingBudgetMs, l, Append(log, Start("greeting")))
     ELSE Await("domains", 0, l, log)

IntentExchanges == Failures \cup {Body(Str(TextIntentGreeting)), Body(Str(TextIntentRepo)), Body(Str(TextNull)), Body(Str(TextEmptyObject))}

\* route.ts 1450-1462: the intent call settles before the timer fires
IntentReplied ==
  /\ pc = "intent"
  /\ \E exchange \in IntentExchanges :
       Commit(afterIntent(withTimeout(Fulfilled(runOpenAIJson(env.apiKey, exchange, gojoFallback(loc.refinedQuestion))),
                               gojoFallback(loc.refinedQuestion))))
  /\ UNCHANGED <<env, memory, embeddings, sanVars, fnVars>>

\* route.ts 935: the timer fires first
IntentTimedOut ==
  /\ pc = "intent"
  /\ timer > 0
  /\ Commit(afterIntent(withTimeout(Pending, gojoFallback(loc.refinedQuestion))))
  /\ UNCHANGED <<env, memory, embeddings, sanVars, fnVars>>

\* route.ts 1483-1507
afterGreeting(greetingAnswer) ==
  Respond(200, greetingAnswer, loc, Append(calls, End("greeting")))

\* the contents of the greeting replies: a text, no text, a number
GreetingContents == <<Str(<<"H","e","l","l","o"," ","t","h","e","r","e","!">>), Str(<<>>), Num(42)>>

GreetingExchanges == {NetworkError, HttpError, BadBody, Body(Undefined)} \cup {Body(GreetingContents[i]) : i \in 1..Len(GreetingContents)}

\* route.ts 1469-1481: the greeting call settles before the timer fires
GreetingReplied ==
  /\ pc = "greeting"
  /\ \E exchange \in GreetingExchanges :
       Commit(afterGreeting(withTimeout(Fulfilled(runOpenAIText(env.apiKey, exchange, Str(GreetingFallback))), Str(GreetingFallback))))
  /\ UNCHANGED <<env, memory, embeddings, sanVars, fnVars>>

\* route.ts 935: the timer fires first
GreetingTimedOut ==
  /\ pc = "greeting"
  /\ timer > 0
  /\ Commit(afterGreeting(withTimeout(Pending, Str(GreetingFallback))))
  /\ UNCHANGED <<env, memory, embeddings, sanVars, fnVars>>

\* route.ts 1510-1528
afterDomains(dominantDomains) ==
  LET weakGojo == isVagueIntent(get(loc.gojo, "intent"), get(loc.gojo, "intent_type"), loc.gojoKeywords)
      finalGojoKeywords ==
        IF weakGojo
        THEN slice(dedupe(loc.gojoKeywords \o loc.fallbackQuestionKeywords \o slice(dominantDomains, VagueDomainCap)), VagueKeywordCap)
        ELSE IF Len(loc.gojoKeywords) > 0 THEN loc.gojoKeywords ELSE loc.fallbackQuestionKeywords
  IN Await("memory", 0,
           [loc EXCEPT !.dominantDomains = dominantDomains, !.weakGojo = weakGojo, !.finalGojoKeywords = finalGojoKeywords],
           calls)

\* the scan of the repository's entities resolves
DomainsLoaded ==
  /\ pc = "domains"
  /\ Commit(afterDomains(detectDominantRepoDomains(loc.repositoryId)))
  /\ UNCHANGED <<env, memory, embeddings, sanVars, fnVars>>

\* a variant of correctedGojo that keeps the classifier's intent and objective
\* when the correction applies
correctedGojoKeepsIntent(weakGojo, gojo, finalGojoKeywords) ==
  Obj([k \in (IF gojo.t = "object" THEN DOMAIN gojo.v ELSE {}) \cup {"keywords"} |->
         IF k = "keywords" THEN Strings(finalGojoKeywords) ELSE gojo.v[k]])

\* route.ts 1531-1539
correctedGojo(weakGojo, gojo, finalGojoKeywords) ==
  IF weakGojo
  THEN Obj([intent_type |-> Str(<<"r","e","p","o","_","q","u","e","s","t","i","o","n">>), intent |-> Str(<<"r","e","p","o","s","i","t","o","r","y","_","o","v","e","r","v","i","e","w">>),
            objective |-> Str(<<"e","x","p","l","a","i","n"," ","m","a","j","o","r"," ","a","p","p","l","i","c","a","t","i","o","n"," ","f","l","o","w","s">>),
            keywords |-> Strings(finalGojoKeywords), answer_style |-> Str(<<"p","r","o","d","u","c","t">>)])
  ELSE Obj([k \in (IF gojo.t = "object" THEN DOMAIN gojo.v ELSE {}) \cup {"keywords"} |->
              IF k = "keywords" THEN Strings(finalGojoKeywords) ELSE gojo.v[k]])

\* route.ts 1529-1579
afterMemory(memoryEntityIds) ==
  Await("expansion", ExpansionBudgetMs,
        [loc EXCEPT !.memoryEntities = retrieveEntitiesByIds(loc.repositoryId, memoryEntityIds),
                    !.correctedGojo = correctedGojo(loc.weakGojo, loc.gojo, loc.finalGojoKeywords)],
        Append(calls, Start("expansion")))

\* the session's memory and its entities are read, and the expansion call is
\* issued
MemoryLoaded ==
  /\ pc = "memory"
  /\ Commit(afterMemory(readSessionMemoryEntities(memory, loc.sessionId, loc.repositoryId)))
  /\ UNCHANGED <<env, memory, embeddings, sanVars, fnVars>>

\* a variant of afterExpansion that goes on to retrieval without the anchors
afterExpansionNoAnchors(fubukiExpanded) ==
  IF nullish(fubukiExpanded) THEN Throw(loc, calls)
  ELSE Await("retrieval", 0,
             [loc EXCEPT !.expandedKeywords = normalizeKeywords(get(fubukiExpanded, "expanded_keywords"))],
             calls \o <<End("expansion"), Start("retrieval")>>)

\* route.ts 1580-1590
afterExpansion(fubukiExpanded) ==
  IF nullish(fubukiExpanded) THEN Throw(loc, calls)
  ELSE Await("anchors", AnchorsBudgetMs,
             [loc EXCEPT !.expandedKeywords = normalizeKeywords(get(fubukiExpanded, "expanded_keywords"))],
             calls \o <<End("expansion"), Start("anchors")>>)

ExpansionExchanges == Failures \cup {Body(Str(TextExpansion)), Body(Str(TextNull)), Body(Str(TextEmptyObject))}

\* route.ts 1575
expansionFallback(finalGojoKeywords) == Obj([expanded_keywords |-> Strings(finalGojoKeywords)])

\* route.ts 1568-1579: the expansion call settles before the timer fires
ExpansionReplied ==
  /\ pc = "expansion"
  /\ \E exchange \in ExpansionExchanges :
       Commit(afterExpansion(withTimeout(Fulfilled(runOpenAIJson(env.apiKey, exchange, expansionFallback(loc.finalGojoKeywords))),
                                  expansionFallback(loc.finalGojoKeywords))))
  /\ UNCHANGED <<env, memory, embeddings, sanVars, fnVars>>

\* route.ts 935: the timer fires first
ExpansionTimedOut ==
  /\ pc = "expansion"
  /\ timer > 0
  /\ Commit(afterExpansion(withTimeout(Pending, expansionFallback(loc.finalGojoKeywords))))
  /\ UNCHANGED <<env, memory, embeddings, sanVars, fnVars>>

\* route.ts 1591-1616: buildRetrievalKeywords is called with five arguments,
\* so its four parameters receive refinedQuestion (a string, spread into its
\* characters), finalGojoKeywords, expandedKeywords and anchorTerms
afterAnchors(flowAnchors) ==
  LET anchorTerms == extractAnchorTerms(flowAnchors)
      retrievalKeywords == buildRetrievalKeywords(spreadString(loc.refinedQuestion), loc.finalGojoKeywords, loc.expandedKeywords, anchorTerms)
      scored == SelectSeq([i \in 1..Len(loc.memoryEntities) |->
                             [entity |-> loc.memoryEntities[i], score |-> scoreEntityAgainstKeywords(loc.memoryEntities[i], retrievalKeywords)]],
                          LAMBDA x : x.score > 0)
      sorted == sortByScoreDesc(scored)
      sessionPriority == slice([i \in 1..Len(sorted) |-> sorted[i].entity], SessionPriorityCap)
  IN Await("retrieval", 0,
           [loc EXCEPT !.flowAnchors = flowAnchors, !.anchorTerms = anchorTerms,
                       !.retrievalKeywords = retrievalKeywords, !.sessionPriority = sessionPriority],
           calls \o <<End("anchors"), Start("retrieval")>>)

AnchorsExchanges == Failures \cup {Body(Str(TextAnchors)), Body(Str(TextNull))}

\* route.ts 1582-1590: generateFlowAnchors settles before the timer fires
AnchorsReplied ==
  /\ pc = "anchors"
  /\ \E exchange \in AnchorsExchanges :
       Commit(afterAnchors(withTimeout(Fulfilled(generateFlowAnchors(env.apiKey, exchange, loc.dominantDomains)),
                                domainFlowAnchors(loc.dominantDomains))))
  /\ UNCHANGED <<env, memory, embeddings, sanVars, fnVars>>

\* route.ts 935: the timer fires first
AnchorsTimedOut ==
  /\ pc = "anchors"
  /\ timer > 0
  /\ Commit(afterAnchors(withTimeout(Pending, domainFlowAnchors(loc.dominantDomains))))
  /\ UNCHANGED <<env, memory, embeddings, sanVars, fnVars>>

\* route.ts 1617-1639
afterRetrieval(keywordResult) ==
  LET tryDomains == keywordResult = <<>> /\ Len(loc.dominantDomains) > 0
      keywordMatched == IF tryDomains
                        THEN retrieveEntitiesByKeywords(loc.repositoryId, slice(loc.dominantDomains, DomainFallbackCap))
                        ELSE keywordResult
      merged == mapSetAll(mapSetAll(<<>>, keywordMatched),
                          SelectSeq(loc.sessionPriority, LAMBDA e : \A i \in 1..Len(keywordMatched) : keywordMatched[i].id # e.id))
      sessionSet == {loc.sessionPriority[i].id : i \in 1..Len(loc.sessionPriority)}
      ranked == sortByScoreDesc([i \in 1..Len(merged) |->
                                   [entity |-> merged[i],
                                    score |-> scoreForSeedRanking(merged[i], loc.retrievalKeywords, loc.dominantDomains, merged[i].id \in sessionSet)]])
      seeds == slice([i \in 1..Len(ranked) |-> ranked[i].entity], SeedCap)
  IN Await("graph", 0,
           [loc EXCEPT !.keywordMatched = keywordMatched, !.domainFallbackUsed = tryDomains /\ Len(keywordMatched) > 0, !.seeds = seeds],
           calls \o <<End("retrieval"), Start("graph")>>)

\* the keyword queries resolve, then the domain fallback's
Retrieved ==
  /\ pc = "retrieval"
  /\ Commit(afterRetrieval(retrieveEntitiesByKeywords(loc.repositoryId, loc.retrievalKeywords)))
  /\ UNCHANGED <<env, memory, embeddings, sanVars, fnVars>>

\* route.ts 1172-1202: the promise rerankWithEmbeddings returns, given the
\* settled promise of the question's embedding and the stored vectors
rerankWithEmbeddings(stored, entities, batch) ==
  IF entities = <<>> THEN Fulfilled(entities)
  ELSE IF batch.state = "rejected" THEN Rejected
  ELSE IF batch.value = <<>> THEN Fulfilled(entities)
  ELSE IF batch.value[1] = <<>> THEN Fulfilled(entities)
  ELSE Fulfilled(rerankByVectors(batch.value[1], stored, entities))

\* route.ts 1674-1678
sukunaFallback ==
  Obj([findings |-> Arr(<<>>), unknowns |-> Strings(<<<<"i","n","s","u","f","f","i","c","i","e","n","t"," ","c","o","n","t","e","x","t">>>>),
       constraints |-> Strings(<<<<"i","n","s","u","f","f","i","c","i","e","n","t"," ","s","t","r","u","c","t","u","r","a","l"," ","e","v","i","d","e","n","c","e">>>>)])

\* a variant of afterRerank that reasons over an empty candidate set too
afterRerankNoEmptyCheck(l, log, reranked) ==
  IF reranked.state = "rejected" THEN Throw(l, log)
  ELSE Await("reasoning", ReasoningBudgetMs,
             [l EXCEPT !.candidateEntities = slice(reranked.value, CandidateCap)],
             log \o <<End("rerank"), Start("reasoning")>>)

\* a variant of afterRerank that answers an empty candidate set with the
\* low-evidence message of the fallback builder
afterRerankLowEvidence(l, log, reranked) ==
  IF reranked.state = "rejected" THEN Throw(l, log)
  ELSE IF slice(reranked.value, CandidateCap) = <<>>
  THEN Respond(200, Str(MsgLowEvidence(l.refinedQuestion)), [l EXCEPT !.candidateEntities = <<>>], Append(log, End("rerank")))
  ELSE Await("reasoning", ReasoningBudgetMs,
             [l EXCEPT !.candidateEntities = slice(reranked.value, CandidateCap)],
             log \o <<End("rerank"), Start("reasoning")>>)

\* route.ts 1640-1699
afterRerank(l, log, reranked) ==
  IF reranked.state = "rejected" THEN Throw(l, log)
  ELSE IF slice(reranked.value, CandidateCap) = <<>>
  THEN Respond(200, Str(MsgNoStructuralContext), [l EXCEPT !.candidateEntities = <<>>], Append(log, End("rerank")))
  ELSE Await("reasoning", ReasoningBudgetMs,
             [l EXCEPT !.candidateEntities = slice(reranked.value, CandidateCap)],
             log \o <<End("rerank"), Start("reasoning")>>)

\* route.ts 1639-1640, 1172-1174: rerankWithEmbeddings is called; it issues the
\* embeddings request unless there is no entity or no API key
afterGraph(apiKey, stored, graph) ==
  LET l == [loc EXCEPT !.expandedEntities = graph.entities, !.relationships = graph.relationships]
      log == calls \o <<End("graph"), Start("rerank")>>
  IN IF graph.entities = <<>> \/ ~apiKey
     THEN afterRerank(l, log, rerankWithEmbeddings(stored, graph.entities,
                                                   generateEmbeddingBatch(apiKey, <<loc.refinedQuestion>>, HttpError)))
     ELSE Await("rerank", 0, l, log)

\* the graph queries resolve
GraphExpanded ==
  /\ pc = "graph"
  /\ Commit(afterGraph(env.apiKey, embeddings, expandGraph(loc.repositoryId, [i \in 1..Len(loc.seeds) |-> loc.seeds[i].id])))
  /\ UNCHANGED <<env, memory, embeddings, sanVars, fnVars>>

EmbeddingExchanges == {NetworkError, HttpError, BadBody, Body(Obj(<<>>)), Body(EmbeddingPayload(<<1, 0>>))}

\* route.ts 1174-1201: the embeddings request for the question settles, the
\* stored vectors are read and the entities are reranked
EmbeddingReplied ==
  /\ pc = "rerank"
  /\ \E exchange \in EmbeddingExchanges :
       Commit(afterRerank(loc, calls, rerankWithEmbeddings(embeddings, loc.expandedEntities,
                                                    generateEmbeddingBatch(env.apiKey, <<loc.refinedQuestion>>, exchange))))
  /\ UNCHANGED <<env, memory, embeddings, sanVars, fnVars>>

\* route.ts 1729-1801: the answer is sanitized, the memory update and the
\* backfill are started without being awaited, and the response is returned
finish(l, log, yujiAnswerRaw) ==
  LET yujiAnswer == sanitizeProductAnswer(charsOf(yujiAnswerRaw), l.deterministicFallback)
      top == slice(l.candidateEntities, UsedEntityCap)
      usedEntityIds == [i \in 1..Len(top) |-> top[i].id]
  IN [pc |-> "done", timer |-> 0, loc |-> [l EXCEPT !.yujiAnswerRaw = yujiAnswerRaw, !.usedEntityIds = usedEntityIds],
      calls |-> log, resp |-> [status |-> 200, answer |-> Str(yujiAnswer)], background |-> TRUE]

\* route.ts 1710-1728, 1741: the turn goes on with the deterministic fallback
\* at hand
afterFallback(sukuna, canUseYuji, deterministicFallback) ==
  IF canUseYuji
  THEN Await("translation", TranslationBudgetMs,
             [loc EXCEPT !.sukuna = sukuna, !.deterministicFallback = deterministicFallback],
             calls \o <<End("reasoning"), Start("translation")>>)
  ELSE finish([loc EXCEPT !.sukuna = sukuna, !.deterministicFallback = deterministicFallback],
              Append(calls, End("reasoning")), Str(deterministicFallback))

\* a variant of afterReasoning that issues the translation call whatever the
\* findings are
afterReasoningAlwaysTranslates(sukuna) ==
  IF nullish(sukuna) \/ nullish(get(sukuna, "findings")) \/ nullish(get(sukuna, "unknowns"))
  THEN Throw([loc EXCEPT !.sukuna = sukuna], calls)
  ELSE afterFallback(sukuna, TRUE,
                     buildDeterministicFallbackAnswer(loc.refinedQuestion, loc.candidateEntities, loc.relationships))

\* route.ts 1701-1728
afterReasoning(sukuna) ==
  IF nullish(sukuna) \/ nullish(get(sukuna, "findings")) \/ nullish(get(sukuna, "unknowns"))
  THEN Throw([loc EXCEPT !.sukuna = sukuna], calls)
  ELSE afterFallback(sukuna, hasLength(get(sukuna, "findings")) /\ Len(get(sukuna, "findings").v) > 0,
                     buildDeterministicFallbackAnswer(loc.refinedQuestion, loc.candidateEntities, loc.relationships))

ReasoningExchanges == Failures \cup {Body(Str(TextReasoning)), Body(Str(TextReasoningNoUnknowns)), Body(Str(TextReasoningNoFindings)),
                                     Body(Str(TextNull)), Body(Str(TextEmptyObject))}

\* route.ts 1680-1699: the reasoning call settles before the timer fires
ReasoningReplied ==
  /\ pc = "reasoning"
  /\ \E exchange \in ReasoningExchanges :
       Commit(afterReasoning(withTimeout(Fulfilled(runOpenAIJson(env.apiKey, exchange, sukunaFallback)), sukunaFallback)))
  /\ UNCHANGED <<env, memory, embeddings, sanVars, fnVars>>

\* route.ts 935: the timer fires first
ReasoningTimedOut ==
  /\ pc = "reasoning"
  /\ timer > 0
  /\ Commit(afterReasoning(withTimeout(Pending, sukunaFallback)))
  /\ UNCHANGED <<env, memory, embeddings, sanVars, fnVars>>

\* the contents of the translation replies: a product-level text, a text with
\* technical vocabulary, no text, a number
TranslationContents == <<Str(<<"U","s","e","r","s"," ","s","i","g","n"," ","i","n"," ","a","n","d"," ","r","e","a","c","h"," ","t","h","e"," ","p","r","o","d","u","c","t",".">>), Str(<<"T","h","e"," ","c","o","n","t","r","o","l","l","e","r",".","t","s"," ","f","i","l","e"," ","h","a","n","d","l","e","s"," ","t","h","i","s">>), Str(<<>>), Num(42)>>

TranslationExchanges == {NetworkError, HttpError, BadBody, Body(Undefined)} \cup {Body(TranslationContents[i]) : i \in 1..Len(TranslationContents)}

\* route.ts 1712-1727: the translation call settles before the timer fires
TranslationReplied ==
  /\ pc = "translation"
  /\ \E exchange \in TranslationExchanges :
       Commit(finish(loc, Append(calls, End("translation")),
              withTimeout(Fulfilled(runOpenAIText(env.apiKey, exchange, Str(loc.deterministicFallback))), Str(loc.deterministicFallback))))
  /\ UNCHANGED <<env, memory, embeddings, sanVars, fnVars>>

\* route.ts 935: the timer fires first
TranslationTimedOut ==
  /\ pc = "translation"
  /\ timer > 0
  /\ Commit(finish(loc, Append(calls, End("translation")), withTimeout(Pending, Str(loc.deterministicFallback))))
  /\ UNCHANGED <<env, memory, embeddings, sanVars, fnVars>>

\* a turn starts on a store earlier turns left
Init ==
  /\ env \in Envs
  /\ pc = "start"
  /\ loc = NoLocals
  /\ timer = 0
  /\ calls = <<>>
  /\ resp = NoResponse
  /\ \E store \in Stores : memory = store.memory /\ embeddings = store.embeddings
  /\ tasks = NoTasks
  /\ backfill = IdleBackfill
  /\ SanIdle
  /\ FnIdle

\* the steps that the language-model service takes: a reply arrives
Replies ==
  \/ FrontdeskReplied
  \/ IntentReplied
  \/ GreetingReplied
  \/ ExpansionReplied
  \/ AnchorsReplied
  \/ EmbeddingReplied
  \/ ReasoningReplied
  \/ TranslationReplied
  \/ BackfillEmbedded

\* the steps that timers take
Timers ==
  \/ FrontdeskTimedOut
  \/ IntentTimedOut
  \/ GreetingTimedOut
  \/ ExpansionTimedOut
  \/ AnchorsTimedOut
  \/ ReasoningTimedOut
  \/ TranslationTimedOut

\* the steps that the request and the database take
Reads ==
  \/ Receive
  \/ Authorize
  \/ DomainsLoaded
  \/ MemoryLoaded
  \/ Retrieved
  \/ GraphExpanded
  \/ BackfillRead
  \/ BackfillWrite
  \/ \E t \in 1..MaxTasks : UpsertRead(t)
  \/ \E t \in 1..MaxTasks : UpsertWrite(t)

Next == Replies \/ Timers \/ Reads

Spec == Init /\ [][Next]_vars

(***************************************************************************)
(* Concurrent memory updates: the upsertSessionMemory invocations of turns   *)
(* of one session on one repository, interleaved at their awaits.           *)
(***************************************************************************)
\* the used entity ids a turn passes: one candidate, or two
UpsertIdLists == {<<"E1">>, <<"E1", "E2">>}

MemInit ==
  /\ memory = EmptyMemory
  /\ embeddings = NoEmbeddings
  /\ tasks = NoTasks
  /\ backfill = IdleBackfill
  /\ TurnIdle
  /\ SanIdle
  /\ FnIdle

\* route.ts 1741-1748: a turn calls upsertSessionMemory without awaiting it
StartUpsert(t) ==
  /\ tasks[t].phase = "idle"
  /\ \E ids \in UpsertIdLists : tasks' = [tasks EXCEPT ![t] = upsertSessionMemory(<<"s","1">>, <<"r","e","p","o","-","1">>, ids)]
  /\ UNCHANGED <<memory, embeddings, backfill, turnVars, sanVars, fnVars>>

MemNext ==
  \/ \E t \in 1..MaxTasks : StartUpsert(t)
  \/ \E t \in 1..MaxTasks : UpsertRead(t)
  \/ \E t \in 1..MaxTasks : UpsertWrite(t)

MemSpec == MemInit /\ [][MemNext]_vars

(***************************************************************************)
(* Memory updates made one after the other: a call of upsertSessionMemory    *)
(* starts only when every earlier call has run to completion.               *)
(***************************************************************************)
\* route.ts 1008-1040: upsertSessionMemory is called while no other call runs
StartUpsertInSequence(t) ==
  /\ \A u \in 1..MaxTasks : tasks[u].phase \in {"idle", "done"}
  /\ StartUpsert(t)

SeqNext ==
  \/ \E t \in 1..MaxTasks : StartUpsertInSequence(t)
  \/ \E t \in 1..MaxTasks : UpsertRead(t)
  \/ \E t \in 1..MaxTasks : UpsertWrite(t)

SeqSpec == MemInit /\ [][SeqNext]_vars

(***************************************************************************)
(* Single calls of the data-access functions and of the fallback builder,   *)
(* on the arguments a caller can pass.                                      *)
(***************************************************************************)
\* the seed id lists: every list of at most MaxSeeds entity ids
SeedLists == UNION {[1..n -> EntityIds] : n \in 0..MaxSeeds}

\* keywords: words of entity names and paths, a word that matches nothing and
\* a keyword that sanitizeForLike empties
KeywordWords == {<<"l","o","g","i","n">>, <<"s","e","s","s","i","o","n">>, <<"s","t","r","i","p","e">>, <<"z","z","z">>, <<"%">>}

\* n keywords that match no entity
Fillers(n) == [i \in 1..n |-> <<"q", LowerSeq[i]>>]

\* a keyword list and a permutation of it: every order of every list of at most
\* MaxKeywords keywords, and a keyword moved from behind the fillers to the front
KeywordListPairs ==
  UNION {{[keywords |-> k, permuted |-> [i \in 1..n |-> k[f[i]]]] : k \in [1..n -> KeywordWords], f \in Permutations(1..n)} :
           n \in 0..MaxKeywords}
    \cup {[keywords |-> Fillers(n) \o <<w>>, permuted |-> <<w>> \o Fillers(n)] : n \in 0..MaxFillers, w \in KeywordWords}

\* the subsequences of a sequence
Subsequences(rows) == {pick(rows, I) : I \in SUBSET (1..Len(rows))}

\* the questions put to the fallback builder: two about sign-in, one about a
\* dependency, one that matches nothing, one that matches nothing and names a
\* file
FallbackQuestions ==
  {<<"h","o","w"," ","d","o","e","s"," ","l","o","g","i","n"," ","w","o","r","k">>,
   <<"I","s"," ","t","h","e","r","e"," ","O","A","u","t","h"," ","l","o","g","i","n","?">>,
   <<"w","h","a","t"," ","i","s"," ","s","t","r","i","p","e"," ","u","s","e","d"," ","f","o","r">>,
   <<"z","z","z">>,
   <<"w","h","i","c","h"," ","f","i","l","e"," ","h","a","s"," ","z","z","z">>}

\* the values a promise given to withTimeout resolves to, and the fallbacks
TimeoutValues == {Undefined, Null, Str(<<>>), Str(<<"o","k">>), Obj(<<>>), sukunaFallback}

\* what becomes of the insert into ingestion_logs: it succeeds, it returns an
\* error, it returns the error of the missing table, it throws
InsertOutcomes == {"ok", "error", "relation_missing", "thrown"}

\* ingestion-logger.ts 18-26, route.ts 1312, 1803: a logger as constructed
IngestionLogger == [persistToSupabase |-> TRUE, ingestionLogsUnavailable |-> FALSE]

\* a variant of log that lets an exception of the insert through
logRethrows(logger, outcome) ==
  IF ~logger.persistToSupabase \/ logger.ingestionLogsUnavailable
  THEN [promise |-> Fulfilled(Undefined), logger |-> logger, inserted |-> FALSE]
  ELSE IF outcome = "thrown"
  THEN [promise |-> Rejected, logger |-> logger, inserted |-> TRUE]
  ELSE IF outcome = "relation_missing"
  THEN [promise |-> Fulfilled(Undefined), logger |-> [logger EXCEPT !.ingestionLogsUnavailable = TRUE], inserted |-> TRUE]
  ELSE [promise |-> Fulfilled(Undefined), logger |-> logger, inserted |-> TRUE]

\* ingestion-logger.ts 37-93: the promise log returns, the logger afterwards,
\* and whether the insert was attempted
log(logger, outcome) ==
  IF ~logger.persistToSupabase \/ logger.ingestionLogsUnavailable
  THEN [promise |-> Fulfilled(Undefined), logger |-> logger, inserted |-> FALSE]
  ELSE IF outcome = "relation_missing"
  THEN [promise |-> Fulfilled(Undefined), logger |-> [logger EXCEPT !.ingestionLogsUnavailable = TRUE], inserted |-> TRUE]
  ELSE [promise |-> Fulfilled(Undefined), logger |-> logger, inserted |-> TRUE]

\* twenty-four distinct edges between E1, E2 and E3
EdgePool ==
  LET ends == << <<"E1", "E2">>, <<"E2", "E1">>, <<"E1", "E3">>, <<"E3", "E1">>, <<"E2", "E3">>, <<"E3", "E2">> >>
      types == <<"imports", "uses-module", "calls", "renders">>
  IN [i \in 1..24 |-> [source_entity_id |-> ends[((i - 1) % 6) + 1][1],
                       target_entity_id |-> ends[((i - 1) % 6) + 1][2],
                       relationship_type |-> types[((i - 1) \div 6) + 1]]]

\* the relationship lists put to the fallback builder: the lists over the
\* rows of the repository's graph and, where it has a graph, lists of edges of
\* the pool, without and with edges listed twice, as expandGraph returns the
\* edges between two seeds
FallbackRelationships(repositoryId) ==
  Subsequences(GraphTable(repositoryId))
    \cup (IF GraphTable(repositoryId) = <<>> THEN {}
          ELSE {SubSeq(EdgePool, 1, n) \o SubSeq(EdgePool, 1, m) : n \in {10, 12, 19, 20, 24}, m \in {0, 10, 12}})

\* n distinct candidate entities, in the order of their rank
CandidatePool(n) == [i \in 1..n |-> [EntitySession EXCEPT !.id = "C" \o ToString(i)]]

\* the sizes of the candidate sets put to the end of a turn: one entity, as
\* many as the memory update takes, and one more
CandidateCounts == {1, UsedEntityCap, UsedEntityCap + 1}

\* seed lists on the wide repository: its first entity, and its first 79 and
\* its first SeedCap entities
WideSeedLists == {[i \in 1..n |-> WideEntities[i].id] : n \in {1, SeedCap - 1, SeedCap}}

\* the entity lists put to the rerank: the entities of repo-1, some or all, in
\* every order
RerankEntityLists ==
  UNION {{[i \in 1..Len(rows) |-> rows[f[i]]] : f \in Permutations(1..Len(rows))} :
           rows \in Subsequences(EntityTable(<<"r","e","p","o","-","1">>))}

\* the stored vector of an entity: none, or one that is equal, orthogonal,
\* opposite or oblique to a query vector
RerankVectors == {<<>>, <<1, 0>>, <<0, 1>>, <<-1, 0>>, <<3, 4>>}

\* the embedding tables put to the rerank
RerankStores ==
  {[id \in EntityIds |-> IF id \in DOMAIN f THEN f[id] ELSE <<>>] : f \in [{"E1", "E2", "E3"} -> RerankVectors]}

\* the vectors a settled embeddings request for the question carries: none,
\* an empty vector, or a query vector
RerankQueryVectors == {<<>>, << <<>> >>, << <<1, 0>> >>, << <<4, 3>> >>}

FnInit ==
  /\ \/ \E r \in Repos, seedIds \in SeedLists :
          fnCall = [fn |-> "expandGraph", repositoryId |-> r, seedIds |-> seedIds]
     \/ \E seedIds \in WideSeedLists :
          fnCall = [fn |-> "expandGraph", repositoryId |-> <<"w","i","d","e">>, seedIds |-> seedIds]
     \/ \E r \in Repos, pair \in KeywordListPairs :
          fnCall = [fn |-> "retrieveEntitiesByKeywords", repositoryId |-> r,
                    keywords |-> pair.keywords, permuted |-> pair.permuted]
     \/ \E r \in Repos, question \in FallbackQuestions :
          \E entities \in Subsequences(EntityTable(r)), relationships \in FallbackRelationships(r) :
            fnCall = [fn |-> "buildDeterministicFallbackAnswer", question |-> question,
                      entities |-> entities, relationships |-> relationships]
     \/ \E fallback \in TimeoutValues :
          fnCall = [fn |-> "withTimeout", promise |-> Pending, fallback |-> fallback, timer |-> "armed"]
     \/ \E outcomes \in UNION {[1..n -> InsertOutcomes] : n \in 1..MaxLogs} :
          fnCall = [fn |-> "log", logger |-> IngestionLogger, outcomes |-> outcomes, written |-> 0, inserts |-> 0]
     \/ \E stored \in RerankStores, entities \in RerankEntityLists, vectors \in RerankQueryVectors, failed \in BOOLEAN :
          fnCall = [fn |-> "rerankWithEmbeddings", stored |-> stored, entities |-> entities,
                    batch |-> IF failed THEN Rejected ELSE Fulfilled(vectors)]
     \/ \E r \in Repos, sessionId \in Sessions, n \in CandidateCounts :
          fnCall = [fn |-> "finish", repositoryId |-> r, sessionId |-> sessionId, candidateEntities |-> CandidatePool(n)]
  /\ fnResult = Pending
  /\ SanIdle
  /\ TurnIdle
  /\ StoreIdle

\* route.ts 1145-1170: a call of expandGraph resolves
ExpandGraphCalled ==
  /\ fnCall.fn = "expandGraph"
  /\ fnResult = Pending
  /\ fnResult' = Fulfilled(expandGraph(fnCall.repositoryId, fnCall.seedIds))
  /\ UNCHANGED <<fnCall, sanVars, turnVars, storeVars>>

\* route.ts 1106-1125: a call of retrieveEntitiesByKeywords on a keyword list
\* and a second call on a permutation of the list resolve
RetrieveByKeywordsCalled ==
  /\ fnCall.fn = "retrieveEntitiesByKeywords"
  /\ fnResult = Pending
  /\ fnResult' = Fulfilled([first |-> retrieveEntitiesByKeywords(fnCall.repositoryId, fnCall.keywords),
                            second |-> retrieveEntitiesByKeywords(fnCall.repositoryId, fnCall.permuted)])
  /\ UNCHANGED <<fnCall, sanVars, turnVars, storeVars>>

\* route.ts 807-906: a call of buildDeterministicFallbackAnswer returns
FallbackAnswerBuilt ==
  /\ fnCall.fn = "buildDeterministicFallbackAnswer"
  /\ fnResult = Pending
  /\ fnResult' = Fulfilled(buildDeterministicFallbackAnswer(fnCall.question, fnCall.entities, fnCall.relationships))
  /\ UNCHANGED <<fnCall, sanVars, turnVars, storeVars>>

\* a variant of resolve in which the last call decides the value
resolveLastCallWins(outer, value) == Fulfilled(value)

\* route.ts 934: the resolve function of the promise withTimeout returns; only
\* the first call settles the promise
resolve(outer, value) == IF outer = Pending THEN Fulfilled(value) ELSE outer

\* route.ts 935: the timer of a call of withTimeout fires
TimeoutFired ==
  /\ fnCall.fn = "withTimeout"
  /\ fnCall.timer = "armed"
  /\ fnCall' = [fnCall EXCEPT !.timer = "fired"]
  /\ fnResult' = resolve(fnResult, fnCall.fallback)
  /\ UNCHANGED <<sanVars, turnVars, storeVars>>

\* route.ts 936-944: the promise given to withTimeout is fulfilled or rejected;
\* the handler clears the timer and calls resolve
PromiseSettled ==
  /\ fnCall.fn = "withTimeout"
  /\ fnCall.promise = Pending
  /\ \E p \in {Fulfilled(v) : v \in TimeoutValues} \cup {Rejected} :
       /\ fnCall' = [fnCall EXCEPT !.promise = p, !.timer = IF @ = "armed" THEN "cleared" ELSE @]
       /\ fnResult' = resolve(fnResult, withTimeout(p, fnCall.fallback))
  /\ UNCHANGED <<sanVars, turnVars, storeVars>>

\* ingestion-logger.ts 37-93: the next call of log on the logger returns
LogWritten ==
  /\ fnCall.fn = "log"
  /\ fnCall.written < Len(fnCall.outcomes)
  /\ \E r \in {log(fnCall.logger, fnCall.outcomes[fnCall.written + 1])} :
       /\ fnCall' = [fnCall EXCEPT !.logger = r.logger, !.written = @ + 1,
                                   !.inserts = IF r.inserted THEN @ + 1 ELSE @]
       /\ fnResult' = r.promise
  /\ UNCHANGED <<sanVars, turnVars, storeVars>>

\* route.ts 1729-1748: the end of a turn that answers from the candidate
\* entities of the call starts the memory update
AnswerFinished ==
  /\ fnCall.fn = "finish"
  /\ fnResult = Pending
  /\ \E step \in {finish([NoLocals EXCEPT !.repositoryId = fnCall.repositoryId, !.sessionId = fnCall.sessionId,
                                          !.candidateEntities = fnCall.candidateEntities],
                         <<>>, Str(<<"o","k">>))} :
       fnResult' = Fulfilled(upsertSessionMemory(step.loc.sessionId, step.loc.repositoryId, step.loc.usedEntityIds))
  /\ UNCHANGED <<fnCall, sanVars, turnVars, storeVars>>

\* route.ts 1172-1202: a call of rerankWithEmbeddings settles
Reranked ==
  /\ fnCall.fn = "rerankWithEmbeddings"
  /\ fnResult.state = "pending"
  /\ fnResult' = rerankWithEmbeddings(fnCall.stored, fnCall.entities, fnCall.batch)
  /\ UNCHANGED <<fnCall, sanVars, turnVars, storeVars>>

FnNext ==
  \/ Reranked
  \/ AnswerFinished
  \/ LogWritten
  \/ ExpandGraphCalled
  \/ RetrieveByKeywordsCalled
  \/ FallbackAnswerBuilt
  \/ TimeoutFired
  \/ PromiseSettled

FnSpec == FnInit /\ [][FnNext]_vars

(***************************************************************************)
(* Properties of a turn.                                                    *)
(***************************************************************************)
\* C1: whatever the collaborators do, a turn that has responded carries an
\* answer that is a non-empty string.
C1_AnswerIsNonEmptyString ==
  pc = "done" => (isString(resp.answer) /\ resp.answer.v # <<>>)

\* C2: a turn ends in the generic failure answer (status 500) only when the
\* request body itself cannot be read, never because a soft-enrichment call
\* timed out, failed or returned malformed data.
C2_NoGenericFailureFromEnrichment ==
  (pc = "done" /\ resp.status = 500) => env.body = Malformed

\* C3: whenever a turn is suspended on a call to an external service, a
\* deadline timer is armed, so that the turn goes on when only timers fire.
C3_EveryExternalWaitHasDeadline ==
  pc \in {"frontdesk", "intent", "greeting", "expansion", "anchors", "rerank", "reasoning", "translation"} => timer > 0

\* C4: in a turn whose classification returned intent_type = greeting, no
\* retrieval, graph-expansion, rerank or reasoning call is ever issued, and the
\* turn answers, with status 200, what the greeting call resolved to: its
\* reply, or the canned greeting.
C4_GreetingSkipsPipeline ==
  get(loc.gojo, "intent_type") = Str(<<"g","r","e","e","t","i","n","g">>) =>
    /\ \A stage \in {"retrieval", "graph", "rerank", "reasoning"} : Start(stage) \notin Range(calls)
    /\ pc \in {"greeting", "done"}
    /\ pc = "done" =>
         /\ resp.status = 200
         /\ resp.answer \in {Str(GreetingFallback)} \cup {c \in Range(GreetingContents) : truthy(c)}

\* a greeting turn that answered with the greeting call's reply
C4_Witness ==
  /\ get(loc.gojo, "intent_type") = Str(<<"g","r","e","e","t","i","n","g">>)
  /\ pc = "done"
  /\ End("greeting") \in Range(calls)
  /\ resp.answer = Str(<<"H","e","l","l","o"," ","t","h","e","r","e","!">>)

\* C5: the stages of a turn are started in the order intent, expansion,
\* anchors, retrieval, graph, rerank, reasoning, translation, none skipped and
\* none repeated, and each is started only after the previous one has ended.
C5_StagesInOrder ==
  LET order == <<"intent", "expansion", "anchors", "retrieval", "graph", "rerank", "reasoning", "translation">>
      started == SelectSeq(calls, LAMBDA c : c.ev = "start" /\ c.stage \in Range(order))
  IN /\ Len(started) <= Len(order)
     /\ \A k \in 1..Len(started) : started[k].stage = order[k]
     /\ \A k \in 2..Len(started) :
          \E i, j \in 1..Len(calls) : i < j /\ calls[i] = End(order[k - 1]) /\ calls[j] = Start(order[k])

\* a turn that went through every stage and responded
C5_Witness ==
  /\ pc = "done"
  /\ Start("translation") \in Range(calls)
  /\ End("translation") \in Range(calls)

\* C6: when the rerank stage ends with an empty candidate set, the turn has
\* responded with status 200 and the not-enough-structure answer, and no
\* reasoning call and no translation call was issued.
C6_EmptyCandidatesAnswerDirectly ==
  (End("rerank") \in Range(calls) /\ loc.candidateEntities = <<>>) =>
    /\ pc = "done"
    /\ resp = [status |-> 200, answer |-> Str(MsgNoStructuralContext)]
    /\ Start("reasoning") \notin Range(calls)
    /\ Start("translation") \notin Range(calls)

\* a turn whose retrieval and graph expansion left no candidate
C6_Witness ==
  /\ End("rerank") \in Range(calls)
  /\ loc.candidateEntities = <<>>
  /\ loc.expandedEntities = <<>>
  /\ pc = "done"

\* C7, as stated: a turn that answers after no entity matched a retrieval
\* keyword and the domain fallback matched nothing answers exactly the
\* low-evidence message that names the question.
C7_NoMatchAnswersLowEvidence ==
  (pc = "done" /\ resp.status = 200 /\ End("retrieval") \in Range(calls) /\ loc.keywordMatched = <<>>) =>
    resp.answer = Str(MsgLowEvidence(loc.refinedQuestion))

\* C7, amended: once retrieval has ended with no entity matching a retrieval
\* keyword, the domain fallback matching nothing and session memory giving no
\* seed, the turn answers exactly the not-enough-structural-context message
\* with status 200; and a turn whose answer is the low-evidence message had
\* candidate entities.
C7_NoMatchAnswersNoStructuralContext ==
  /\ (End("retrieval") \in Range(calls) /\ loc.keywordMatched = <<>> /\ loc.sessionPriority = <<>>) =>
       \/ pc = "graph"
       \/ pc = "done" /\ resp = [status |-> 200, answer |-> Str(MsgNoStructuralContext)]
  /\ (pc = "done" /\ resp.answer = Str(MsgLowEvidence(loc.refinedQuestion))) => loc.candidateEntities # <<>>

\* a turn on a repository with dominant domains, in which the keyword queries
\* and the domain fallback matched nothing, that has answered
C7_Witness ==
  /\ pc = "done"
  /\ End("retrieval") \in Range(calls)
  /\ Len(loc.dominantDomains) > 0
  /\ loc.keywordMatched = <<>>
  /\ loc.sessionPriority = <<>>
  /\ resp.answer = Str(MsgNoStructuralContext)

(***************************************************************************)
(* Properties of the session memory.                                        *)
(***************************************************************************)
\* C10: under every interleaving of the memory updates of concurrent turns of
\* one session and repository, no step decreases the stored weight of a
\* record.
C10_WeightNeverDecreases ==
  [][\A k \in MemoryKeys : memory'[k] >= memory[k]]_vars

\* C11: when two turns of one session are answered one after the other and
\* both pass E1 to the memory update, then once both updates have finished the
\* stored weight of E1 is 2.  A turn returns its response without awaiting the
\* update it started (route.ts 1742), so the update of the first turn is still
\* running when the second turn starts its own.
C11_SequentialTurnsCountTwice ==
  (/\ \A t \in 1..2 : tasks[t].phase = "done" /\ "E1" \in Range(tasks[t].entityIds)
   /\ \A t \in 3..MaxTasks : tasks[t].phase = "idle")
  => memory[<<<<"s","1">>, <<"r","e","p","o","-","1">>, "E1">>] = 2

\* the calls of upsertSessionMemory whose upsert of entity id has resolved
WritersOf(id) ==
  {t \in 1..MaxTasks :
     \E j \in 1..Len(tasks[t].entityIds) :
       /\ tasks[t].entityIds[j] = id
       /\ (tasks[t].phase = "done" \/ (tasks[t].phase \in {"read", "write"} /\ j < tasks[t].i))}

\* C12: when the calls of upsertSessionMemory run one after the other, every
\* upsert sets the stored weight to the prior weight plus 1, or to 1 when
\* there was no row: at every moment the stored weight of an entity is the
\* number of upserts made for it, so n calls from no row leave weight n.
C12_SequentialWritesAddOne ==
  \A id \in EntityIds :
    memory[<<<<"s","1">>, <<"r","e","p","o","-","1">>, id>>] = Cardinality(WritersOf(id))

\* three calls in sequence have run to completion for E1, and its weight is 3
C12_Witness ==
  /\ \A t \in 1..3 : tasks[t].phase = "done" /\ "E1" \in Range(tasks[t].entityIds)
  /\ memory[<<<<"s","1">>, <<"r","e","p","o","-","1">>, "E1">>] = 3

(***************************************************************************)
(* Properties of the request validation.                                    *)
(***************************************************************************)
\* C13: a request whose body lacks the question, the repositoryId or the
\* sessionId is rejected at once (status 400, or 401 when it carries no token
\* either): the turn is over after the body was read, no collaborator is
\* called, no store is read or written and no background work is started.
C13_MissingFieldRejected ==
  (/\ env.body # Malformed
   /\ pc # "start"
   /\ \E field \in {"question", "repositoryId", "sessionId"} : get(env.body, field) = Undefined)
  => /\ pc = "done"
     /\ resp.status \in {400, 401}
     /\ calls = <<>>
     /\ tasks = NoTasks
     /\ backfill = IdleBackfill

(***************************************************************************)
(* Properties of the data access.                                           *)
(***************************************************************************)
\* the ids at graph distance at most one of the seed ids: the seed ids and the
\* other endpoint of every edge of the repository that starts or ends at one
WithinOneHop(repositoryId, seedIds) ==
  Range(seedIds)
    \cup {e.target_entity_id : e \in {x \in Range(GraphTable(repositoryId)) : x.source_entity_id \in Range(seedIds)}}
    \cup {e.source_entity_id : e \in {x \in Range(GraphTable(repositoryId)) : x.target_entity_id \in Range(seedIds)}}

\* C14: every entity expandGraph(repositoryId, S) returns has an id that is in
\* S or is the other endpoint of an edge whose source or target is in S.
C14_ExpandGraphStaysWithinOneHop ==
  (fnCall # <<>> /\ fnCall.fn = "expandGraph" /\ fnResult.state = "fulfilled") =>
    \A i \in 1..Len(fnResult.value.entities) :
      fnResult.value.entities[i].id \in WithinOneHop(fnCall.repositoryId, fnCall.seedIds)

\* expandGraph was called on the seed E2 of repo-1, whose neighbour E1 has the
\* further neighbour E3: E1 and E2 are returned, E3 is not
C14_Witness ==
  /\ fnCall # <<>>
  /\ fnCall.fn = "expandGraph"
  /\ fnCall.repositoryId = <<"r","e","p","o","-","1">>
  /\ fnCall.seedIds = <<"E2">>
  /\ fnResult.state = "fulfilled"
  /\ {fnResult.value.entities[i].id : i \in 1..Len(fnResult.value.entities)} = {"E1", "E2"}

\* the ids of a sequence of entity rows
IdsOf(entities) == {entities[i].id : i \in 1..Len(entities)}

\* C15, as stated: for a fixed repository, retrieveEntitiesByKeywords returns
\* the same set of entity ids for a keyword list of any length and for every
\* permutation of the list.
C15_KeywordOrderIrrelevant ==
  (fnCall # <<>> /\ fnCall.fn = "retrieveEntitiesByKeywords" /\ fnResult.state = "fulfilled") =>
    IdsOf(fnResult.value.first) = IdsOf(fnResult.value.second)

\* C15, amended: for a keyword list of at most KeywordFanOut keywords,
\* retrieveEntitiesByKeywords returns the same set of entity ids for every
\* permutation of the list.
C15_KeywordOrderIrrelevantWithinFanOut ==
  (/\ fnCall # <<>>
   /\ fnCall.fn = "retrieveEntitiesByKeywords"
   /\ fnResult.state = "fulfilled"
   /\ Len(fnCall.keywords) <= KeywordFanOut) =>
    IdsOf(fnResult.value.first) = IdsOf(fnResult.value.second)

\* three different keywords, two of which match an entity each, were queried in
\* two different orders, and both calls returned E1 and E3
C15_Witness ==
  /\ fnCall # <<>>
  /\ fnCall.fn = "retrieveEntitiesByKeywords"
  /\ fnCall.repositoryId = <<"r","e","p","o","-","1">>
  /\ fnCall.keywords = <<<<"l","o","g","i","n">>, <<"z","z","z">>, <<"s","t","r","i","p","e">>>>
  /\ fnCall.permuted = <<<<"s","t","r","i","p","e">>, <<"l","o","g","i","n">>, <<"z","z","z">>>>
  /\ fnResult.state = "fulfilled"
  /\ IdsOf(fnResult.value.first) = {"E1", "E3"}
  /\ IdsOf(fnResult.value.second) = {"E1", "E3"}

(***************************************************************************)
(* Properties of the answer selection.                                      *)
(***************************************************************************)
\* C16: the translation call is issued only in a turn whose reasoning output
\* has a non-empty findings list; with empty findings, those of the reasoning
\* timeout fallback included, no translation call is issued.
C16_TranslationOnlyWithFindings ==
  Start("translation") \in Range(calls) =>
    /\ isArray(get(loc.sukuna, "findings"))
    /\ Len(get(loc.sukuna, "findings").v) > 0

\* a turn whose reasoning call gave the timeout fallback, with empty findings,
\* answered without a translation call
C16_Witness ==
  /\ pc = "done"
  /\ resp.status = 200
  /\ End("reasoning") \in Range(calls)
  /\ loc.sukuna = sukunaFallback
  /\ Start("translation") \notin Range(calls)

\* C17: when the reasoning findings are empty, the answer of the turn is,
\* character for character, the text buildDeterministicFallbackAnswer gives
\* for the turn's question, candidate entities and relationships.
C17_EmptyFindingsAnswerIsFallbackVerbatim ==
  (/\ pc = "done"
   /\ resp.status = 200
   /\ End("reasoning") \in Range(calls)
   /\ isArray(get(loc.sukuna, "findings"))
   /\ Len(get(loc.sukuna, "findings").v) = 0)
  => resp.answer = Str(buildDeterministicFallbackAnswer(loc.refinedQuestion, loc.candidateEntities, loc.relationships))

(***************************************************************************)
(* Properties of the deterministic fallback builder.                        *)
(***************************************************************************)
\* the related entities the narrative of the fallback builder is told over
\* (route.ts 821-830)
RelatedEntitiesFor(question, entities, relationships) ==
  LET anchorIds == anchorIdsOf(scoredAgainst(entities, extractKeywordsFromQuestion(question)))
  IN relatedEntitiesOf(entities, relatedIdsOf(anchorIds, relatedEdgesOf(relationships, anchorIds)))

\* C18: in the auth narrative of the fallback builder, the sentence of the
\* sign-in options names 'Google sign-in' whenever the metadata tags of a
\* related entity hold 'google', also when no name, type or path does.
C18_GoogleSignInFromTags ==
  (/\ fnCall # <<>>
   /\ fnCall.fn = "buildDeterministicFallbackAnswer"
   /\ fnResult.state = "fulfilled"
   /\ isAuthQuestion(fnCall.question)
   /\ \E e \in Range(RelatedEntitiesFor(fnCall.question, fnCall.entities, fnCall.relationships)) :
        <<"g","o","o","g","l","e">> \in Range(e.metadata.tags))
  => includes(fnResult.value, <<"G","o","o","g","l","e"," ","s","i","g","n","-","i","n">>)

(***************************************************************************)
(* Properties of the rerank and of the seed pool.                           *)
(***************************************************************************)
\* C19: whatever becomes of the embeddings request for the question (no API
\* key, a status that is not OK, a network error, a body that is not JSON),
\* rerankWithEmbeddings does not throw: a turn that had entities to rerank
\* and has left the rerank has entered the reasoning stage.
C19_RerankFailureContinuesToReasoning ==
  (/\ Start("rerank") \in Range(calls)
   /\ pc # "rerank"
   /\ loc.expandedEntities # <<>>)
  => Start("reasoning") \in Range(calls)

\* C20: every entity read from the session's memory is among the seeds of the
\* turn once retrieval is over, whether or not a retrieval keyword matches it.
C20_MemoryEntityIsSeeded ==
  End("retrieval") \in Range(calls)
  => \A i \in 1..Len(loc.memoryEntities) :
       \E j \in 1..Len(loc.seeds) : loc.seeds[j].id = loc.memoryEntities[i].id

(***************************************************************************)
(* Properties of the background work of a turn.                             *)
(***************************************************************************)
\* C21: the response of a turn is returned without waiting for the embedding
\* backfill: from the moment the backfill is started the turn is over with
\* its answer, and no step taken while the backfill runs, fails, hangs or
\* completes changes the answer or the status.
C21_BackfillNeverTouchesResponse ==
  /\ [](backfill.phase # "idle" => pc = "done" /\ resp.status = 200)
  /\ [][backfill.phase # "idle" => resp' = resp /\ pc' = pc]_vars

\* the backfill found entities without a vector and ended without a row to
\* write, after the response was given
C21_Witness ==
  /\ pc = "done"
  /\ resp.status = 200
  /\ backfill.phase = "done"
  /\ backfill.missing # <<>>
  /\ backfill.rows = <<>>

(***************************************************************************)
(* Properties of withTimeout.                                               *)
(***************************************************************************)
InWithTimeout == fnCall # <<>> /\ fnCall.fn = "withTimeout"

\* C22: the promise withTimeout returns is never rejected and is resolved
\* once: its value never changes after it is set; when the timer fires first
\* the value is the fallback, and the promise it was given is left pending,
\* free to settle later.
C22_WithTimeoutResolvesOnce ==
  /\ [](InWithTimeout => fnResult.state # "rejected")
  /\ [][InWithTimeout /\ fnResult # Pending => fnResult' = fnResult]_vars
  /\ [][InWithTimeout /\ fnCall.timer = "armed" /\ fnCall'.timer = "fired"
          => fnResult' = Fulfilled(fnCall.fallback) /\ fnCall'.promise = Pending]_vars

\* the timer fired, the fallback was delivered, and the promise was fulfilled
\* afterwards with another value
C22_Witness ==
  /\ InWithTimeout
  /\ fnCall.timer = "fired"
  /\ fnCall.promise.state = "fulfilled"
  /\ fnCall.promise.value # fnCall.fallback
  /\ fnResult = Fulfilled(fnCall.fallback)

(***************************************************************************)
(* Properties of the frontdesk intake.                                      *)
(***************************************************************************)
\* the message of the one frontdesk reply whose mode is 'reply'
FrontdeskReplyMessage == get(JSONparse(TextFrontdeskReply).value, "human_message")

\* C23: a turn whose frontdesk mode is 'reply' is over, answers the frontdesk
\* message and has issued no intent, retrieval, graph or reasoning call; and
\* the step that leaves the frontdesk stage either is that answer, given to
\* the reply of mode 'reply', or issues the intent call, whatever else the
\* frontdesk call came to (mode 'route', timeout, error, no mode, another
\* mode).
C23_OnlyReplyModeShortCircuits ==
  /\ [](loc.frontdeskMode = "reply"
          => /\ pc = "done"
             /\ resp = [status |-> 200, answer |-> Str(loc.frontdeskMessage)]
             /\ \A stage \in {"intent", "retrieval", "graph", "reasoning"} : Start(stage) \notin Range(calls))
  /\ [][pc = "frontdesk"
          => \/ /\ pc' = "intent"
                /\ resp' = NoResponse
                /\ calls' = calls \o <<End("frontdesk"), Start("intent")>>
             \/ /\ pc' = "done"
                /\ env.apiKey
                /\ loc'.frontdeskMode = "reply"
                /\ resp' = [status |-> 200, answer |-> FrontdeskReplyMessage]]_vars

\* the frontdesk replied in mode 'reply' and the turn answered its message
C23_Witness ==
  /\ pc = "done"
  /\ loc.frontdeskMode = "reply"
  /\ resp.answer = FrontdeskReplyMessage
  /\ calls = <<Start("frontdesk"), End("frontdesk")>>

(***************************************************************************)
(* Properties of the logger.                                                *)
(***************************************************************************)
\* C24: a failed log write never aborts the turn nor changes its answer: the
\* promise of every call of log, which is all the turn awaits of it, is
\* fulfilled with undefined, whether the insert succeeded, returned an error
\* or threw.
C24_LogWriteNeverRejects ==
  (fnCall # <<>> /\ fnCall.fn = "log" /\ fnCall.written > 0) => fnResult = Fulfilled(Undefined)

\* three calls of log returned, of which one insert threw and one returned an
\* error
C24_Witness ==
  /\ fnCall # <<>>
  /\ fnCall.fn = "log"
  /\ fnCall.written = MaxLogs
  /\ fnCall.outcomes[MaxLogs] = "thrown"
  /\ fnCall.outcomes[1] = "error"
  /\ fnResult = Fulfilled(Undefined)

\* C25: the relationships expandGraph returns are the set union of the rows
\* of its two queries: no edge is listed twice, an edge between two seeds
\* included.
C25_RelationshipsAreSetUnion ==
  (fnCall # <<>> /\ fnCall.fn = "expandGraph" /\ fnResult.state = "fulfilled")
  => \A i, j \in 1..Len(fnResult.value.relationships) :
       fnResult.value.relationships[i] = fnResult.value.relationships[j] => i = j

\* the distinct relationships of a list that touch an anchor entity of the
\* fallback builder (route.ts 821-822)
DistinctRelatedEdges(question, entities, relationships) ==
  Range(relatedEdgesOf(relationships, anchorIdsOf(scoredAgainst(entities, extractKeywordsFromQuestion(question)))))

\* C26: the narrative of the fallback builder, in the auth branch and in the
\* generic branch, says that confidence is high exactly when at least 20
\* distinct relationships touch an anchor entity, and that it is moderate
\* otherwise.
C26_ConfidenceCountsDistinctEdges ==
  (/\ fnCall # <<>>
   /\ fnCall.fn = "buildDeterministicFallbackAnswer"
   /\ fnResult.state = "fulfilled"
   /\ includes(fnResult.value, <<"C","o","n","f","i","d","e","n","c","e"," ","i","s"," ">>))
  => IF Cardinality(DistinctRelatedEdges(fnCall.question, fnCall.entities, fnCall.relationships)) >= HighConfidenceEdges
     THEN includes(fnResult.value, <<"C","o","n","f","i","d","e","n","c","e"," ","i","s"," ","h","i","g","h">>)
     ELSE includes(fnResult.value, <<"C","o","n","f","i","d","e","n","c","e"," ","i","s"," ","m","o","d","e","r","a","t","e">>)

(***************************************************************************)
(* Properties of the retrieval keywords.                                    *)
(***************************************************************************)
\* C27: the retrieval keywords handed to entity retrieval are the
\* de-duplicated union of the intent keywords, the expanded keywords, the
\* anchor terms and the dominant domains, lower-cased, without generic query
\* words, capped at 28.
C27_RetrievalKeywordsAreTheUnion ==
  Start("retrieval") \in Range(calls)
  => loc.retrievalKeywords
       = buildRetrievalKeywords(loc.finalGojoKeywords, loc.expandedKeywords, loc.anchorTerms, loc.dominantDomains)

\* the tokens that are evidence of a validation step
ValidationTokens == <<<<"v","a","l","i","d","a","t","e">>, <<"v","e","r","i","f","y">>, <<"b","c","r","y","p","t">>, <<"p","e","r","m","i","s","s","i","o","n">>, <<"g","u","a","r","d">>>>

\* C28: for an auth question the narrative of the fallback builder holds the
\* validation sentence only if the text of a related entity carries a
\* validation token; the tokens 'auth' and 'login' alone do not bring it in.
C28_ValidationSentenceNeedsValidationToken ==
  (/\ fnCall # <<>>
   /\ fnCall.fn = "buildDeterministicFallbackAnswer"
   /\ fnResult.state = "fulfilled"
   /\ isAuthQuestion(fnCall.question)
   /\ includes(fnResult.value, <<"t","h","e"," ","s","y","s","t","e","m"," ","v","a","l","i","d","a","t","e","s"," ","i","d","e","n","t","i","t","y">>))
  => containsAnyPhrase(toLowerCase(authCorpusFrom(RelatedEntitiesFor(fnCall.question, fnCall.entities, fnCall.relationships))),
                       ValidationTokens)

\* C29: every text buildDeterministicFallbackAnswer returns is clean under
\* the rules of the sanitizer: it holds no word of the technical vocabulary
\* and no path-like token, so the sanitizer lets it through.
C29_FallbackTextIsClean ==
  (fnCall # <<>> /\ fnCall.fn = "buildDeterministicFallbackAnswer" /\ fnResult.state = "fulfilled")
  => sanitizeProductAnswer(fnResult.value, <<>>) = normalizeText(fnResult.value)

(***************************************************************************)
(* Properties of the vagueness correction.                                  *)
(***************************************************************************)
\* the classified intent is empty or unknown, and the normalized keywords are
\* none or generic words only
IntentIsVague ==
  /\ \/ ~isString(get(loc.gojo, "intent"))
     \/ toLowerCase(trim(get(loc.gojo, "intent").v)) \in {<<>>, <<"u","n","k","n","o","w","n">>}
  /\ Range(loc.gojoKeywords) \subseteq GENERIC_QUERY_WORDS

\* the keywords of the classifier, the tokens of the question and the top
\* dominant domains, each once
ReseededKeywords == dedupe(loc.gojoKeywords \o loc.fallbackQuestionKeywords \o slice(loc.dominantDomains, VagueDomainCap))

\* what C30 says of a turn past the correction, for the keywords given
VagueCorrectionGives(keywords) ==
  Start("expansion") \in Range(calls)
  => /\ loc.weakGojo = IntentIsVague
     /\ loc.weakGojo
          => /\ get(loc.correctedGojo, "intent") = Str(<<"r","e","p","o","s","i","t","o","r","y","_","o","v","e","r","v","i","e","w">>)
             /\ get(loc.correctedGojo, "objective") = Str(<<"e","x","p","l","a","i","n"," ","m","a","j","o","r"," ","a","p","p","l","i","c","a","t","i","o","n"," ","f","l","o","w","s">>)
             /\ loc.finalGojoKeywords = keywords
             /\ get(loc.correctedGojo, "keywords") = Strings(keywords)
     /\ ~loc.weakGojo
          => /\ get(loc.correctedGojo, "intent") = get(loc.gojo, "intent")
             /\ get(loc.correctedGojo, "objective") = get(loc.gojo, "objective")

IntentReplyValues == {JSONparse(text).value : text \in {TextIntentGreeting, TextIntentRepo, TextNull, TextEmptyObject}}

\* the distinct tokens of at least 3 characters of a question
QuestionTokens(question) == dedupe(tokenizeWords(question, 3))

\* the step that leaves the intent stage either takes the classifier's answer
\* or, the call having timed out or failed, goes on to the next stage with
\* intent_type unclear, the normalized question cut at 120 characters as
\* objective, and the keywords given
IntentStepFallsBackTo(keywords) ==
  \/ env.apiKey /\ loc'.gojo \in IntentReplyValues
  \/ /\ get(loc'.gojo, "intent_type") = Str(<<"u","n","c","l","e","a","r">>)
     /\ get(loc'.gojo, "objective") = Str(slice(normalizeText(loc.refinedQuestion), 120))
     /\ get(loc'.gojo, "keywords") = Strings(keywords)
     /\ loc'.gojoKeywords = keywords
     /\ pc' = "domains"
     /\ resp' = NoResponse

\* C31 as stated: when the intent call times out or fails, the turn uses
\* intent_type unclear, the normalized question cut at 120 characters and, as
\* keywords, the distinct question tokens of at least 3 characters, and goes
\* on instead of answering.
C31_IntentFallbackKeepsAllTokens ==
  [][pc = "intent" /\ pc' # "intent" => IntentStepFallsBackTo(QuestionTokens(loc.refinedQuestion))]_vars

\* C31 amended: as above, the keywords being the first 12 of those tokens.
C31_IntentFallbackKeepsFirstTwelveTokens ==
  [][pc = "intent" /\ pc' # "intent"
       => IntentStepFallsBackTo(slice(QuestionTokens(loc.refinedQuestion), QuestionKeywordsCap))]_vars

\* the fallback classified a question of more than 12 tokens and the turn went
\* on
C31_Witness ==
  /\ Len(QuestionTokens(loc.refinedQuestion)) > QuestionKeywordsCap
  /\ get(loc.gojo, "intent_type") = Str(<<"u","n","c","l","e","a","r">>)
  /\ Len(loc.gojoKeywords) = QuestionKeywordsCap
  /\ Start("retrieval") \in Range(calls)

(***************************************************************************)
(* Concurrent backfills: the runMetalBatWorker invocations of turns on one  *)
(* repository, interleaved at their awaits.  backfill holds one worker per  *)
(* turn; OPENAI_API_KEY is set.                                             *)
(***************************************************************************)
MaxWorkers == 2

\* the candidate sets the turns pass: the non-empty selections of the entities
\* of the repository, in the order of the table
WorkerCandidates == Subsequences(EntityTable(<<"r","e","p","o","-","1">>)) \ {<<>>}

WorkersInit ==
  /\ memory = EmptyMemory
  /\ embeddings \in {store.embeddings : store \in Stores}
  /\ tasks = NoTasks
  /\ backfill = [w \in 1..MaxWorkers |-> IdleBackfill]
  /\ TurnIdle
  /\ SanIdle
  /\ FnIdle

\* route.ts 1751-1756: a turn starts runMetalBatWorker without awaiting it
WorkerStarted(w) ==
  /\ backfill[w].phase = "idle"
  /\ \E entities \in WorkerCandidates : backfill' = [backfill EXCEPT ![w] = runMetalBatWorker(entities)]
  /\ UNCHANGED <<memory, embeddings, tasks, turnVars, sanVars, fnVars>>

\* route.ts 1223-1253: the select of the stored ids of worker w resolves
WorkerSelected(w) ==
  /\ backfill[w].phase = "read"
  /\ backfill' = [backfill EXCEPT ![w] = afterBackfillSelect(backfill[w], embeddings, TRUE)]
  /\ UNCHANGED <<memory, embeddings, tasks, turnVars, sanVars, fnVars>>

\* route.ts 1253-1287: the embeddings request of worker w settles
WorkerEmbedded(w) ==
  /\ backfill[w].phase = "embed"
  /\ \E exchange \in BackfillExchanges :
       backfill' = [backfill EXCEPT ![w] = afterBackfillBatch(backfill[w], backfill[w].missing, generateEmbeddingBatch(TRUE, backfill[w].missing, exchange))]
  /\ UNCHANGED <<memory, embeddings, tasks, turnVars, sanVars, fnVars>>

\* route.ts 1276-1299: the upsert of the rows of worker w resolves
WorkerWrote(w) ==
  /\ backfill[w].phase = "write"
  /\ embeddings' = upsertEmbeddingRows(embeddings, backfill[w].rows)
  /\ backfill' = [backfill EXCEPT ![w].phase = "done"]
  /\ UNCHANGED <<memory, tasks, turnVars, sanVars, fnVars>>

WorkersNext ==
  \/ \E w \in 1..MaxWorkers : WorkerStarted(w)
  \/ \E w \in 1..MaxWorkers : WorkerSelected(w)
  \/ \E w \in 1..MaxWorkers : WorkerEmbedded(w)
  \/ \E w \in 1..MaxWorkers : WorkerWrote(w)

WorkersSpec == WorkersInit /\ [][WorkersNext]_vars

\* C32: a backfill writes an embedding row only for an entity that has no
\* stored vector at the moment of the write, under any interleaving of the
\* backfills of concurrent turns: a step in which a worker's upsert resolves
\* finds every entity of its rows without a stored vector
C32_BackfillWritesOnlyMissing ==
  [][\A w \in 1..MaxWorkers :
       backfill[w].phase = "write" /\ backfill'[w].phase = "done"
       => \A i \in 1..Len(backfill[w].rows) : embeddings[backfill[w].rows[i].entity_id] = <<>>]_vars

(***************************************************************************)
(* Concurrent memory updates on a store that may hold rows already: the     *)
(* steps of MemSpec, from the empty store or from the store earlier turns   *)
(* of the session left.                                                     *)
(***************************************************************************)
StoredMemInit ==
  /\ memory \in {EmptyMemory, SeededMemory}
  /\ embeddings = NoEmbeddings
  /\ tasks = NoTasks
  /\ backfill = IdleBackfill
  /\ TurnIdle
  /\ SanIdle
  /\ FnIdle

StoredMemSpec == StoredMemInit /\ [][MemNext]_vars

\* the store the updates started from: the updates write rows of repo-1 only,
\* so the row of E9 on repo-2 is the one the run started with
StartMemory ==
  IF memory[<<<<"s","1">>, <<"r","e","p","o","-","2">>, "E9">>] = 0 THEN EmptyMemory ELSE SeededMemory

\* C33: when k calls of upsertSessionMemory update the key of an entity
\* concurrently, starting from weight w (0 without a row), then once all k have
\* finished the stored weight is at least w + 1 and at most w + k, under every
\* interleaving of their selects and upserts.
C33_ConcurrentWeightBounds ==
  \A id \in EntityIds :
    LET key == <<<<"s","1">>, <<"r","e","p","o","-","1">>, id>>
        k == Cardinality(WritersOf(id))
    IN (k >= 1 /\ \A t \in 1..MaxTasks : tasks[t].phase \in {"idle", "done"})
       => memory[key] >= StartMemory[key] + 1 /\ memory[key] <= StartMemory[key] + k

\* three calls for E1 have finished on a store that held weight 2 for E1; their
\* selects all resolved before the first upsert, and the weight is 3
C33_Witness ==
  /\ StartMemory = SeededMemory
  /\ \A t \in 1..3 : tasks[t].phase = "done" /\ "E1" \in Range(tasks[t].entityIds)
  /\ memory[<<<<"s","1">>, <<"r","e","p","o","-","1">>, "E1">>] = 3

\* C34: after a turn that answers from a non-empty candidate set, every entity
\* of the candidate set has had its session-memory weight incremented by the
\* turn's memory update, not only a prefix of the candidates: the update the
\* turn starts is given the id of every candidate entity.
C34_EveryCandidateIsUpdated ==
  (fnCall # <<>> /\ fnCall.fn = "finish" /\ fnResult # Pending)
  => \A i \in 1..Len(fnCall.candidateEntities) :
       fnCall.candidateEntities[i].id \in Range(fnResult.value.entityIds)

\* C35: for every seed list the orchestrator can pass to expandGraph (at most
\* SeedCap distinct entities of the repository), if some seed has a direct
\* neighbour that exists in the repository and is not itself a seed, then
\* expandGraph returns at least one entity outside the seed set.
C35_NeighbourOutsideSeedsReturned ==
  (/\ fnCall # <<>>
   /\ fnCall.fn = "expandGraph"
   /\ fnResult.state = "fulfilled"
   /\ Len(fnCall.seedIds) <= SeedCap
   /\ dedupe(fnCall.seedIds) = fnCall.seedIds
   /\ Range(fnCall.seedIds) \subseteq IdsOf(EntityTable(fnCall.repositoryId))
   /\ \E id \in WithinOneHop(fnCall.repositoryId, fnCall.seedIds) \ Range(fnCall.seedIds) :
        id \in IdsOf(EntityTable(fnCall.repositoryId)))
  => \E id \in IdsOf(fnResult.value.entities) : id \notin Range(fnCall.seedIds)

\* the turn is over with an answer made from a non-empty candidate set
AnsweredFromCandidates == pc = "done" /\ resp.status = 200 /\ loc.candidateEntities # <<>>

\* C36: session memory is written and the embedding backfill is started only
\* in turns that reach an answer from a non-empty candidate set.  The memory
\* update and the backfill are started only in such a turn, no step of another
\* turn changes a store, and a turn that ends in input rejection, frontdesk
\* reply, greeting reply, the empty-evidence answer or the generic failure
\* answer ends with the stores it started with and no background work.
C36_BackgroundOnlyAfterAnswer ==
  /\ []((tasks # NoTasks \/ backfill # IdleBackfill) => AnsweredFromCandidates)
  /\ [][(memory' # memory \/ embeddings' # embeddings) => AnsweredFromCandidates]_vars
  /\ []((pc = "done" /\ ~AnsweredFromCandidates)
        => [memory |-> memory, embeddings |-> embeddings] \in Stores)

\* a turn on a store with rows found candidate entities and then ended with the
\* generic failure answer: nothing was started and the store is as it was
C36_Witness ==
  /\ pc = "done"
  /\ resp = [status |-> 500, answer |-> Str(MsgGenericFailure)]
  /\ loc.candidateEntities # <<>>
  /\ tasks = NoTasks
  /\ backfill = IdleBackfill
  /\ memory = SeededMemory
  /\ embeddings = StoredEmbeddings

(***************************************************************************)
(* Two clients on one repository: a client asks without a sessionId, as     *)
(* ChatInterface.handleSubmit does (src/unnamed/part_007 45-55), on empty   *)
(* stores; when its turn and the background work of the turn are over, a    *)
(* second client asks.  env.client names the client of the turn.            *)
(***************************************************************************)
LoginQuestion == Str(<<"h","o","w"," ","d","o","e","s"," ","l","o","g","i","n"," ","w","o","r","k">>)

\* the body ChatInterface.handleSubmit sends: question and repositoryId
ChatInterfaceBody == Obj([question |-> LoginQuestion, repositoryId |-> Str(<<"r","e","p","o","-","1">>)])

\* the bodies of the second client: the same without a sessionId, or with a
\* sessionId of its own
SecondClientBodies ==
  {ChatInterfaceBody,
   Obj([question |-> LoginQuestion, repositoryId |-> Str(<<"r","e","p","o","-","1">>), sessionId |-> Str(<<"s","2">>)])}

ClientsInit ==
  /\ env \in [body : {ChatInterfaceBody}, token : {TRUE}, apiKey : BOOLEAN, client : {"A"}]
  /\ pc = "start"
  /\ loc = NoLocals
  /\ timer = 0
  /\ calls = <<>>
  /\ resp = NoResponse
  /\ memory = EmptyMemory
  /\ embeddings = NoEmbeddings
  /\ tasks = NoTasks
  /\ backfill = IdleBackfill
  /\ SanIdle
  /\ FnIdle

\* route.ts 1302-1309: the request of the second client arrives, and a new
\* invocation of POST starts on the stores the first turn left
SecondClientAsks ==
  /\ env.client = "A"
  /\ pc = "done"
  /\ \A t \in 1..MaxTasks : tasks[t].phase \in {"idle", "done"}
  /\ backfill.phase \in {"idle", "done"}
  /\ env' \in [body : SecondClientBodies, token : {TRUE}, apiKey : {env.apiKey}, client : {"B"}]
  /\ pc' = "start"
  /\ loc' = NoLocals
  /\ timer' = 0
  /\ calls' = <<>>
  /\ resp' = NoResponse
  /\ tasks' = NoTasks
  /\ backfill' = IdleBackfill
  /\ UNCHANGED <<memory, embeddings, sanVars, fnVars>>

ClientsNext == Next \/ SecondClientAsks

ClientsSpec == ClientsInit /\ [][ClientsNext]_vars

\* C37: the turns of one client never influence the seed set of another
\* client's turns on the same repository unless both clients send the same
\* sessionId; two clients that send no sessionId do not share session memory.
\* The first client sends no sessionId and the stores were empty before its
\* turn, so the turn of the second client finds no session memory and takes
\* no seed from it.
C37_ClientsShareNoMemory ==
  env.client = "B" => loc.memoryEntities = <<>> /\ loc.sessionPriority = <<>>

\* the number of times x occurs in a sequence
Occurrences(xs, x) == Cardinality({i \in 1..Len(xs) : xs[i] = x})

\* C38: rerankWithEmbeddings returns a permutation of its input: every input
\* entity appears exactly once in the output and no other entity appears,
\* whatever embeddings are stored and whatever their similarity to the
\* question.
C38_RerankReturnsPermutation ==
  (fnCall # <<>> /\ fnCall.fn = "rerankWithEmbeddings" /\ fnResult.state = "fulfilled")
  => /\ Len(fnResult.value) = Len(fnCall.entities)
     /\ \A x \in Range(fnCall.entities) \cup Range(fnResult.value) :
          Occurrences(fnResult.value, x) = 1 /\ Occurrences(fnCall.entities, x) = 1

\* session, login and stripe were reranked on a table in which login has a
\* vector opposite to the question's, stripe one equal to it and session none:
\* stripe, session and login are returned, in this order
C38_Witness ==
  /\ fnCall # <<>>
  /\ fnCall.fn = "rerankWithEmbeddings"
  /\ fnCall.entities = <<EntitySession, EntityLogin, EntityStripe>>
  /\ fnCall.stored["E1"] = <<-1, 0>>
  /\ fnCall.stored["E2"] = <<>>
  /\ fnCall.stored["E3"] = <<1, 0>>
  /\ fnCall.batch.state = "fulfilled"
  /\ fnCall.batch.value = << <<1, 0>> >>
  /\ fnResult.state = "fulfilled"
  /\ fnResult.value = <<EntityStripe, EntitySession, EntityLogin>>

=============================================================================
